---- MODULE Spec2Model ----
(***************************************************************************)
(* pihole-threat-intel: the evaluation pipeline of main.run() and the      *)
(* functions it drives (known-good filter, dedup against the evaluation    *)
(* store, bounded-concurrency enrichment, batch classification, tally,     *)
(* persistence, alerts and summary).                                       *)
(*                                                                         *)
(* Conventions.  A Python str that the code inspects character by          *)
(* character (a domain name) is a sequence of one-character strings.       *)
(* Optional values (X | None) are None == <<>> and Some(x) == <<x>>.       *)
(* A call that may raise returns [raised |-> BOOLEAN, value |-> ...].      *)
(***************************************************************************)
EXTENDS Integers, Sequences, FiniteSets, TLC

VARIABLES
    pc,             \* position of the coordinator run() / of the function under study
    world,          \* the environment of this run: raw query log, evaluation store, settings
    domain_stats,   \* main.py:43
    filtered,       \* main.py:53
    already_evaluated, \* main.py:57
    to_evaluate,    \* main.py:59
    stats,          \* main.py:34, the RunStats counters
    enrich_in,      \* enrichment.py:298, the list enrich_domains was called with
    concurrency,    \* enrichment.py:299, parameter of enrich_domains
    sem,            \* enrichment.py:305, free permits of the semaphore
    task,           \* per input domain: state of its _limited task
    results,        \* per input domain: the EnrichedDomain its task returned
    enriched,       \* main.py:69
    previous,       \* main.py:72
    batches,        \* main.py:76
    batch_i,        \* main.py:79, index of the next batch
    all_evaluations,\* main.py:77
    agent_runs,     \* per evaluate_batch call: the replies its agent.run() requests received
    ret,            \* what the function under study returned or raised
    stored,         \* rows store_evaluations committed in this run
    out,            \* every emit_summary / emit_alert call, in call order
    summary_h,      \* index of the next handler in a "for h in handlers: emit_summary" loop
    trace,          \* coordinator stages entered, in order
    caught,         \* log.exception events of failures handled inside a callee, in order
    gathered        \* per _enrich_one call: what asyncio.gather holds for each awaitable so far

vars == << pc, world, domain_stats, filtered, already_evaluated, to_evaluate, stats,
           enrich_in, concurrency, sem, task, results, enriched, previous, batches, batch_i,
           all_evaluations, agent_runs, ret, stored, out, summary_h, trace, caught,
           gathered >>

-----------------------------------------------------------------------------
(* Bounds of the model *)

MaxStats == 3          \* raw DomainStats rows returned by fetch_domain_stats
MaxBatchSize == 2      \* settings.batch_size ranges over 1..MaxBatchSize
MaxEnrich == 3         \* input length of enrich_domains when studied on its own
MaxConcurrency == 2    \* concurrency argument of enrich_domains when studied on its own
MaxBatch == 2          \* batch length of evaluate_batch when studied on its own
MaxReply == 2          \* records in one structured model reply
MaxEvals == 2          \* accumulated evaluations when the reporting stage is studied on its own

(* Program constants *)

DefaultConcurrency == 10   \* enrichment.py:299
EvaluationTtlDays == 7     \* config.py:37
PreviousEvaluationsCount == 20  \* config.py:36

-----------------------------------------------------------------------------
(* Generic helpers *)

None == << >>
Some(x) == << x >>

Ret(v) == [raised |-> FALSE, value |-> v]
Raise(e) == [raised |-> TRUE, value |-> e]

Min(a, b) == IF a <= b THEN a ELSE b

Range(s) == { s[i] : i \in DOMAIN s }

SeqsUpTo(S, n) == UNION { [1..k -> S] : k \in 0..n }

DistinctSeqs(S, n) ==
    { s \in SeqsUpTo(S, n) : \A i, j \in DOMAIN s : i # j => s[i] # s[j] }

RECURSIVE Concat(_)
Concat(ss) == IF ss = << >> THEN << >> ELSE Head(ss) \o Concat(Tail(ss))

Count(s, P(_)) == Cardinality({ i \in DOMAIN s : P(s[i]) })

-----------------------------------------------------------------------------
(* str methods used by known_domains.is_known_good *)

LowerChar(c) ==
    CASE c = "A" -> "a"
      [] c = "B" -> "b"
      [] c = "C" -> "c"
      [] c = "G" -> "g"
      [] c = "L" -> "l"
      [] c = "N" -> "n"
      [] OTHER -> c

lower(s) == [i \in DOMAIN s |-> LowerChar(s[i])]

RECURSIVE rstrip_dot(_)
rstrip_dot(s) ==
    IF s # << >> /\ s[Len(s)] = "."
    THEN rstrip_dot(SubSeq(s, 1, Len(s) - 1))
    ELSE s

endswith(s, suffix) ==
    /\ Len(suffix) <= Len(s)
    /\ SubSeq(s, Len(s) - Len(suffix) + 1, Len(s)) = suffix

(* The allowlist of config.yml as known_domains._load returns it. *)
KnownSuffixes == { << "g", ".", "c" >> }
KnownExact == { << "l" >> }

is_known_good(domain) ==
    LET d == rstrip_dot(lower(domain))
    IN  \/ d \in KnownExact
        \/ \E suffix \in KnownSuffixes : endswith(d, suffix)

-----------------------------------------------------------------------------
(* domain_aggregator *)

(* filter_known_good that tests the name as logged, without is_known_good's  *)
(* normalisation                                                             *)
filter_known_good_AsLogged(domains) ==
    SelectSeq(domains, LAMBDA d : ~ (\/ d.domain \in KnownExact
                                     \/ \E suffix \in KnownSuffixes : endswith(d.domain, suffix)))

filter_known_good(domains) ==
    SelectSeq(domains, LAMBDA d : ~ is_known_good(d.domain))

(* remove_already_evaluated that normalises the name before the test *)
remove_already_evaluated_Normalised(domains, evaluated) ==
    SelectSeq(domains, LAMBDA d : rstrip_dot(lower(d.domain)) \notin evaluated)

(* remove_already_evaluated without its test: nothing is removed *)
remove_already_evaluated_KeepsAll(domains, evaluated) == domains

remove_already_evaluated(domains, evaluated) ==
    SelectSeq(domains, LAMBDA d : d.domain \notin evaluated)

(* [xs[i : i + size] for i in range(0, len(xs), size)] *)
(* The slicing that stops at the last full slice: the remainder is lost *)
Slices_DropsRemainder(xs, size) ==
    [k \in 1..(Len(xs) \div size) |-> SubSeq(xs, (k - 1) * size + 1, k * size)]

Slices(xs, size) ==
    LET n == (Len(xs) + size - 1) \div size
    IN  [k \in 1..n |-> SubSeq(xs, (k - 1) * size + 1, Min(k * size, Len(xs)))]

(* batch_domains that leaves the last short slice out *)
batch_domains_FullSlicesOnly(domains, batch_size) == Slices_DropsRemainder(domains, batch_size)

(* domain_aggregator.py:37-41 *)
batch_domains(domains, batch_size) == Slices(domains, batch_size)

-----------------------------------------------------------------------------
(* models *)

ThreatLevel == { "benign", "suspicious", "malicious", "unknown" }

DomainStats(d, qc, clients, qtypes) ==
    [domain |-> d, query_count |-> qc, unique_clients |-> clients, query_types |-> qtypes]

NewRunStats ==
    [ total_domains_queried |-> 0, domains_after_filtering |-> 0,
      domains_already_evaluated |-> 0, domains_to_evaluate |-> 0,
      batches_processed |-> 0, evaluations_produced |-> 0, escalations |-> 0,
      errors |-> 0, benign_count |-> 0, suspicious_count |-> 0,
      malicious_count |-> 0, unknown_count |-> 0 ]

(* a confidence field without its bounds *)
ConfidenceValid_Unchecked(c) == TRUE

(* models.py:30 and 45: confidence: int = Field(ge=0, le=100).  pydantic     *)
(* raises ValidationError when a DomainEvaluation or a SingleEvaluation is   *)
(* built from a value outside the bounds.                                    *)
ConfidenceValid(c) == c >= 0 /\ c <= 100

DomainEvaluation(d, level, conf, by, qc, clients, at) ==
    [ domain |-> d, threat_level |-> level, confidence |-> conf, reasoning |-> "r",
      indicators |-> << >>, evaluated_by |-> by, escalated |-> FALSE,
      query_count |-> qc, unique_clients |-> clients, evaluated_at |-> at ]

SingleEvaluation(d, level, conf) ==
    [ domain |-> d, threat_level |-> level, confidence |-> conf, reasoning |-> "r",
      indicators |-> << >> ]

(* str.join with "," (sqlite_source.py:176 and 180) *)
RECURSIVE Join(_)
Join(parts) ==
    IF parts = << >> THEN << >>
    ELSE IF Len(parts) = 1 THEN parts[1]
    ELSE parts[1] \o << "," >> \o Join(Tail(parts))

(* str.split(",") (sqlite_source.py:197-198): the pieces between the commas *)
RECURSIVE SplitAtCommas(_)
SplitAtCommas(text) ==
    IF \A k \in DOMAIN text : text[k] # ","
    THEN << text >>
    ELSE LET c == CHOOSE k \in DOMAIN text :
                    text[k] = "," /\ \A j \in 1..(k - 1) : text[j] # ","
         IN  << SubSeq(text, 1, c - 1) >> \o SplitAtCommas(SubSeq(text, c + 1, Len(text)))

(* sqlite_source.py:165-182: the column values of the INSERT.  The text of  *)
(* evaluated_at.isoformat() is kept as the day it names: for the UTC times  *)
(* the program creates it orders as the times do and reads back equal.      *)
InsertRow(ev) ==
    [ev EXCEPT !.indicators = Join(ev.indicators),
               !.escalated = IF ev.escalated THEN 1 ELSE 0,
               !.unique_clients = Join(ev.unique_clients)]

(* sqlite_source.py:195-210; "if row[...]" fails for the empty text *)
_row_to_evaluation(row) ==
    [row EXCEPT !.indicators = IF row.indicators # << >>
                               THEN SplitAtCommas(row.indicators) ELSE << >>,
                !.escalated = row.escalated # 0,
                !.unique_clients = IF row.unique_clients # << >>
                                   THEN SplitAtCommas(row.unique_clients) ELSE << >>]

-----------------------------------------------------------------------------
(* The environment: what the query log and the evaluation store hold when   *)
(* the run starts, and the settings it runs with.  Time is counted in days. *)
(* entry names the function that is started (run, or one of the functions   *)
(* it calls, studied on its own inputs); network names how much of the      *)
(* outside world's behaviour is enumerated.                                 *)

DomA == << "a", ".", "g", ".", "c" >>   \* a.g.c, under the allowlisted suffix g.c
DomL == << "L", "." >>                   \* "L.", the allowlisted exact name l once normalised
DomB == << "b", ".", "c" >>
DomN == << "n", ".", "c" >>
DomH == << "h", ".", "c" >>              \* never in the query log: a name only the model invents

RawDomains == { DomA, DomL, DomB, DomN }

StatsOf(d) == DomainStats(d, Len(d), << << "c", "1" >> >>, << "A" >>)

Logs == { [i \in DOMAIN s |-> StatsOf(s[i])] : s \in DistinctSeqs(RawDomains, MaxStats) }

StoredRow(d, level, at) ==
    InsertRow(DomainEvaluation(d, level, 80, "m0", 1, << << "c", "1" >> >>, at))

Databases(now) ==
    { b \o n : b \in { << >>, << StoredRow(DomB, "malicious", now) >>,
                       << StoredRow(DomB, "malicious", now - EvaluationTtlDays - 1) >> },
               n \in { << >>, << StoredRow(DomN, "benign", now - 1) >>,
                      << [StoredRow(DomN, "benign", now - 1) EXCEPT !.confidence = 101] >> } }

Worlds ==
    { [ entry |-> "run", network |-> "coarse", now |-> 100, log |-> l, db |-> d,
        batch_size |-> bs, email_enabled |-> e, ollama_model |-> "m1" ] :
        l \in Logs, d \in Databases(100), bs \in 1..MaxBatchSize, e \in BOOLEAN }

(* main.py:35-38 *)
Handlers(w) == IF w.email_enabled THEN << "stdout", "email" >> ELSE << "stdout" >>

-----------------------------------------------------------------------------
(* DataSource (sqlite_source.SQLiteSource).  fault names what goes wrong in *)
(* the call: "none", "open" (the connection cannot be opened) or "query"    *)
(* (the statement fails).                                                   *)

StorageFaults == { "none", "open", "query" }

(* sqlite_source.py:73-117: both failures are caught *)
fetch_domain_stats(w, fault) ==
    IF fault = "none" THEN Ret(w.log) ELSE Ret(<< >>)

(* fetch_already_evaluated_domains without the WHERE clause: every domain *)
(* ever evaluated is returned                                             *)
fetch_already_evaluated_domains_NoTtl(w, fault) ==
    CASE fault = "open" -> Raise("OperationalError")
      [] fault = "query" -> Ret({})
      [] OTHER -> Ret({ w.db[i].domain : i \in DOMAIN w.db })

(* sqlite_source.py:139-156: _eval_conn() is called outside the try *)
fetch_already_evaluated_domains(w, fault) ==
    CASE fault = "open" -> Raise("OperationalError")
      [] fault = "query" -> Ret({})
      [] OTHER ->
            LET since == w.now - EvaluationTtlDays
            IN  Ret({ w.db[i].domain : i \in { j \in DOMAIN w.db : w.db[j].evaluated_at > since } })

(* opensearch_source.py:126-149 (opensearch_source.OpenSearchSource):       *)
(* indices.exists is called outside the try ("open"); the range query takes *)
(* evaluated_at >= since and the terms aggregation returns the              *)
(* TermsAggregationSize domains with the most documents.                    *)
TermsAggregationSize == 50000

Documents(w, domain, since) ==
    Cardinality({ j \in DOMAIN w.db : w.db[j].domain = domain /\ w.db[j].evaluated_at >= since })

opensearch_fetch_already_evaluated_domains(w, fault) ==
    CASE fault = "open" -> Raise("ConnectionError")
      [] fault = "query" -> Ret({})
      [] OTHER ->
            LET since == w.now - EvaluationTtlDays
                hits == { w.db[i].domain :
                            i \in { j \in DOMAIN w.db : w.db[j].evaluated_at >= since } }
            IN  IF Cardinality(hits) <= TermsAggregationSize THEN Ret(hits)
                ELSE Ret(CHOOSE top \in SUBSET hits :
                            /\ Cardinality(top) = TermsAggregationSize
                            /\ \A d \in top, e \in hits \ top :
                                    Documents(w, d, since) >= Documents(w, e, since))

(* ORDER BY evaluated_at DESC: insertion sort, newest first *)
RECURSIVE OrderByEvaluatedAtDesc(_)
OrderByEvaluatedAtDesc(rows) ==
    IF rows = << >> THEN << >>
    ELSE LET i == CHOOSE k \in DOMAIN rows :
                    \A j \in DOMAIN rows :
                        \/ rows[k].evaluated_at > rows[j].evaluated_at
                        \/ (rows[k].evaluated_at = rows[j].evaluated_at /\ k <= j)
             rest == [j \in 1..(Len(rows) - 1) |-> IF j < i THEN rows[j] ELSE rows[j + 1]]
         IN  << rows[i] >> \o OrderByEvaluatedAtDesc(rest)

(* sqlite_source.py:119-137: the rows are turned into DomainEvaluation *)
(* objects by _row_to_evaluation (195-210) after the try block          *)
fetch_previous_evaluations(w, fault) ==
    CASE fault = "open" -> Raise("OperationalError")
      [] fault = "query" -> Ret(<< >>)
      [] OTHER ->
            LET sorted == OrderByEvaluatedAtDesc(w.db)
                rows == SubSeq(sorted, 1, Min(PreviousEvaluationsCount, Len(sorted)))
            IN  IF \E i \in DOMAIN rows : ~ ConfidenceValid(rows[i].confidence)
                THEN Raise("ValidationError")
                ELSE Ret([i \in DOMAIN rows |-> _row_to_evaluation(rows[i])])

(* sqlite_source.py:158-193: value is <<count returned, rows committed>> *)
store_evaluations(evaluations, fault) ==
    CASE evaluations = << >> -> Ret(<< 0, << >> >>)
      [] fault = "open" -> Raise("OperationalError")
      [] fault = "query" -> Ret(<< 0, << >> >>)
      [] OTHER -> Ret(<< Len(evaluations),
                         [i \in DOMAIN evaluations |-> InsertRow(evaluations[i])] >>)

-----------------------------------------------------------------------------
(* agent *)

(* getattr on a batch member: an EnrichedDomain is a dataclass with the     *)
(* field stats, the enrichment fields and the property domain; a            *)
(* DomainStats has domain, query_count, unique_clients, query_types.        *)
IsEnrichedDomain(d) == "stats" \in DOMAIN d

Attributes(d) == IF IsEnrichedDomain(d) THEN DOMAIN d \cup { "domain" } ELSE DOMAIN d

DomainOf(d) == IF IsEnrichedDomain(d) THEN d.stats.domain ELSE d.domain

(* agent.py:51-60 *)
_format_learning_context(prev) ==
    IF prev = << >> THEN << "no_previous_evaluations" >>
    ELSE << "previous_evaluations_header" >> \o
         [i \in DOMAIN prev |->
            << prev[i].domain, prev[i].threat_level, prev[i].confidence, prev[i].indicators >>]

(* agent.py:63-75: reads d.unique_clients, d.query_types, d.domain, d.query_count *)
_format_batch_prompt(batch, learning_context) ==
    IF \E i \in DOMAIN batch :
            ~ ({ "unique_clients", "query_types", "domain", "query_count" } \subseteq Attributes(batch[i]))
    THEN Raise("AttributeError")
    ELSE Ret([ learning_context |-> learning_context,
               domain_list |-> [i \in DOMAIN batch |->
                    [ domain |-> batch[i].domain, queries |-> batch[i].query_count,
                      clients |-> SubSeq(batch[i].unique_clients, 1,
                                         Min(5, Len(batch[i].unique_clients))),
                      types |-> batch[i].query_types ]] ])

(* The join that never finds the batch member *)
DomainLookup_Misses(batch, name) == None

(* agent.py:87: {d.domain: d for d in batch}.get(name); a later member wins *)
DomainLookup(batch, name) ==
    LET hits == { i \in DOMAIN batch : DomainOf(batch[i]) = name }
    IN  IF hits = {} THEN None
        ELSE Some(batch[CHOOSE i \in hits : \A j \in hits : j <= i])

(* agent.py:91-96: agent.run raises when the endpoint fails and when, after *)
(* the retries, its answer still does not validate as BatchEvaluationResult *)
ModelCallFails(reply) ==
    \/ reply.kind = "fail"
    \/ \E i \in DOMAIN reply.evaluations : ~ ConfidenceValid(reply.evaluations[i].confidence)

(* evaluate_batch whose except branch falls back to an "unknown" evaluation *)
(* of every batch member instead of returning []                            *)
evaluate_batch_FallsBack(batch, previous_evaluations, reply, model_name, now) ==
    LET user_prompt == _format_batch_prompt(batch, _format_learning_context(previous_evaluations))
    IN  IF user_prompt.raised THEN Raise(<< user_prompt.value, 0 >>)
        ELSE IF reply.kind = "fail"
        THEN Ret(<< [i \in DOMAIN batch |->
                        DomainEvaluation(batch[i].domain, "unknown", 0, model_name,
                            batch[i].query_count, batch[i].unique_clients, now)],
                    1 >>)
        ELSE Ret(<< << >>, 1 >>)

(* agent.py:78-149.  reply is what agent.run(user_prompt) does once it is   *)
(* awaited: [kind |-> "fail"] (it raises after the model layer's retries)   *)
(* or [kind |-> "ok", evaluations |-> the SingleEvaluation records].        *)
(* value: <<evaluations returned, agent.run requests issued>>.              *)
evaluate_batch(batch, previous_evaluations, reply, model_name, now) ==
    LET learning_context == _format_learning_context(previous_evaluations)
        user_prompt == _format_batch_prompt(batch, learning_context)
        raw == reply.evaluations
        needsStats(i) == DomainLookup(batch, raw[i].domain) # None
        statsOf(i) == DomainLookup(batch, raw[i].domain)[1]
    IN  IF user_prompt.raised THEN Raise(<< user_prompt.value, 0 >>)
        ELSE IF ModelCallFails(reply) THEN Ret(<< << >>, 1 >>)
        ELSE IF \E i \in DOMAIN raw :
                    /\ needsStats(i)
                    /\ ~ ({ "query_count", "unique_clients" } \subseteq Attributes(statsOf(i)))
        THEN Raise(<< "AttributeError", 1 >>)
        ELSE Ret(<< [i \in DOMAIN raw |->
                        DomainEvaluation(raw[i].domain, raw[i].threat_level,
                            raw[i].confidence, model_name,
                            IF needsStats(i) THEN statsOf(i).query_count ELSE 0,
                            IF needsStats(i) THEN statsOf(i).unique_clients ELSE << >>,
                            now)],
                    1 >>)

-----------------------------------------------------------------------------
(* enrichment.  One line of dig +short output is the sequence of its       *)
(* dot-separated parts, a part being its int() value or -1 when int()      *)
(* raises ValueError.  What a dig subprocess does is                       *)
(*   [kind |-> "lines", lines |-> its output lines]                        *)
(*   [kind |-> "timeout"]   asyncio.wait_for gives up after 5 s            *)
(*   [kind |-> "nodig"]     FileNotFoundError from create_subprocess_exec  *)
(*   [kind |-> "oserror"]   any other OSError from create_subprocess_exec  *)
(*   [kind |-> "baddata"]   output that stdout.decode() rejects            *)
(* and what a curl subprocess does is kind "json" with the parsed data,    *)
(* "timeout", "garbage" (json.loads rejects it) or "oserror".              *)

Dig(kind, lines) == [kind |-> kind, lines |-> lines]
Curl(kind, data) == [kind |-> kind, data |-> data]

(* _resolve without asyncio.TimeoutError in its except clause *)
_resolve_RaisesOnTimeout(o) ==
    CASE o.kind = "lines" -> Ret(o.lines)
      [] o.kind = "nodig" -> Ret(<< >>)
      [] OTHER -> Raise(o.kind)

(* enrichment.py:98-112 *)
_resolve(o) ==
    CASE o.kind = "lines" -> Ret(o.lines)
      [] o.kind \in { "timeout", "nodig" } -> Ret(<< >>)
      [] OTHER -> Raise(o.kind)

(* enrichment.py:115-126 *)
_check_quad9(f, u) ==
    LET filtered_r == _resolve(f)
        unfiltered_r == _resolve(u)
    IN  IF filtered_r.raised \/ unfiltered_r.raised THEN None
        ELSE IF filtered_r.value = << >> /\ unfiltered_r.value # << >> THEN Some(TRUE)
        ELSE Some(FALSE)

(* _check_cloudflare without its test for the 0.0.0.0 answer *)
_check_cloudflare_NoSinkhole(f, u) == _check_quad9(f, u)

(* enrichment.py:129-142 *)
_check_cloudflare(f, u) ==
    LET filtered_r == _resolve(f)
        unfiltered_r == _resolve(u)
    IN  IF filtered_r.raised \/ unfiltered_r.raised THEN None
        ELSE IF /\ filtered_r.value # << >>
                /\ \E i \in DOMAIN filtered_r.value : filtered_r.value[i] = << 0, 0, 0, 0 >>
                /\ unfiltered_r.value # << >>
        THEN Some(TRUE)
        ELSE IF filtered_r.value = << >> /\ unfiltered_r.value # << >> THEN Some(TRUE)
        ELSE Some(FALSE)

(* enrichment.py:150-159 *)
SpamhausCodeMap(ip) ==
    CASE ip = << 127, 0, 1, 2 >> -> Some("spam")
      [] ip = << 127, 0, 1, 4 >> -> Some("phishing")
      [] ip = << 127, 0, 1, 5 >> -> Some("malware")
      [] ip = << 127, 0, 1, 6 >> -> Some("botnet_cc")
      [] ip = << 127, 0, 1, 102 >> -> Some("abused_spam")
      [] ip = << 127, 0, 1, 104 >> -> Some("abused_phishing")
      [] ip = << 127, 0, 1, 105 >> -> Some("abused_malware")
      [] ip = << 127, 0, 1, 106 >> -> Some("abused_botnet_cc")
      [] OTHER -> None

(* _check_spamhaus that looks up the first answer line only *)
_check_spamhaus_FirstLineOnly(o) ==
    LET r == _resolve(o)
    IN  IF r.raised THEN r
        ELSE IF r.value = << >> THEN Ret(None)
        ELSE Ret(SpamhausCodeMap(r.value[1]))

(* enrichment.py:145-163: no try around _resolve *)
_check_spamhaus(o) ==
    LET r == _resolve(o)
        hits == { i \in DOMAIN r.value : SpamhausCodeMap(r.value[i]) # None }
    IN  IF r.raised THEN r
        ELSE IF r.value = << >> \/ hits = {} THEN Ret(None)
        ELSE Ret(SpamhausCodeMap(r.value[CHOOSE i \in hits : \A j \in hits : i <= j]))

Bit(code, b) == (code \div b) % 2 = 1

(* enrichment.py:172-186: the categories one answer line appends *)
SurblCategories(ip) ==
    IF Len(ip) # 4 \/ ip[4] < 0 THEN << >>
    ELSE (IF Bit(ip[4], 8) THEN << "phishing" >> ELSE << >>)
      \o (IF Bit(ip[4], 16) THEN << "malware" >> ELSE << >>)
      \o (IF Bit(ip[4], 64) THEN << "abuse" >> ELSE << >>)
      \o (IF Bit(ip[4], 128) THEN << "cracked" >> ELSE << >>)

(* enrichment.py:166-187: the ", "-joined string is kept as the sequence of its items *)
_check_surbl(o) ==
    LET r == _resolve(o)
        categories == Concat([i \in DOMAIN r.value |-> SurblCategories(r.value[i])])
    IN  IF r.raised THEN r
        ELSE IF r.value = << >> \/ categories = << >> THEN Ret(None)
        ELSE Ret(Some(categories))

(* enrichment.py:190-228.  data is                                          *)
(*   [events |-> sequence of [eventAction, eventDate],                       *)
(*    entities |-> sequence of [roles, vcard_ok, fn]]                        *)
(* an eventDate is None (key absent) or Some([text, parses, age]): the first *)
(* ten characters, whether strptime accepts them, and now minus that date in *)
(* days; vcard_ok is FALSE when reading vcardArray raises; fn is None when    *)
(* the card has no "fn" entry.  value: <<age_days, registrar, creation_date>> *)
_check_rdap(o) ==
    LET data == o.data
        regs == { i \in DOMAIN data.events : data.events[i].eventAction = "registration" }
        lastReg == data.events[CHOOSE i \in regs : \A j \in regs : j <= i]
        creation_date ==
            IF regs = {} THEN None
            ELSE IF lastReg.eventDate = None THEN Some([text |-> "", parses |-> FALSE, age |-> 0])
            ELSE lastReg.eventDate
        registrars == { i \in DOMAIN data.entities : "registrar" \in data.entities[i].roles }
        named == { i \in registrars : data.entities[i].fn # None }
        registrar ==
            IF named = {} THEN None
            ELSE data.entities[CHOOSE i \in named : \A j \in named : j <= i].fn
        age_days ==
            IF creation_date # None /\ creation_date[1].text # "" /\ creation_date[1].parses
            THEN Some(creation_date[1].age)
            ELSE None
    IN  IF o.kind # "json" THEN << None, None, None >>
        ELSE IF \E i \in registrars : ~ data.entities[i].vcard_ok THEN << None, None, None >>
        ELSE << age_days, registrar,
                IF creation_date = None THEN None ELSE Some(creation_date[1].text) >>

(* enrichment.py:231-252.  data is [count, malware, pulses]: pulse_info.count *)
(* (None when absent), the malware.data list and the tag lists of the pulses. *)
(* list(set(tags)) has no defined order: the tags are kept as a set.          *)
(* value: <<pulse_count, malware_count, tags>>                                *)
_check_otx(o) ==
    LET data == o.data
        firstPulses == SubSeq(data.pulses, 1, Min(5, Len(data.pulses)))
        tags == UNION { Range(SubSeq(firstPulses[i], 1, Min(3, Len(firstPulses[i])))) :
                        i \in DOMAIN firstPulses }
    IN  IF o.kind # "json" THEN << None, None, {} >>
        ELSE << Some(IF data.count = None THEN 0 ELSE data.count[1]),
                Some(Len(data.malware)), tags >>

Calls == { "dns_a", "dns_mx", "dns_ns", "dns_txt", "quad9_filtered", "quad9_unfiltered",
           "cloudflare_filtered", "cloudflare_unfiltered", "spamhaus", "surbl", "rdap", "otx" }

CurlCalls == { "rdap", "otx" }

(* enrichment.py:255-294.  plan gives, for each subprocess the domain's       *)
(* lookups start, what that subprocess does.  asyncio.gather without          *)
(* return_exceptions re-raises the first exception of any awaitable.          *)
_enrich_one(domain_stat, plan) ==
    LET dns_a == _resolve(plan["dns_a"])
        dns_mx == _resolve(plan["dns_mx"])
        dns_ns == _resolve(plan["dns_ns"])
        dns_txt == _resolve(plan["dns_txt"])
        quad9 == _check_quad9(plan["quad9_filtered"], plan["quad9_unfiltered"])
        cloudflare == _check_cloudflare(plan["cloudflare_filtered"], plan["cloudflare_unfiltered"])
        spamhaus == _check_spamhaus(plan["spamhaus"])
        surbl == _check_surbl(plan["surbl"])
        rdap == _check_rdap(plan["rdap"])
        otx == _check_otx(plan["otx"])
    IN  IF \/ dns_a.raised \/ dns_mx.raised \/ dns_ns.raised \/ dns_txt.raised
           \/ spamhaus.raised \/ surbl.raised
        THEN Raise("lookup")
        ELSE Ret([ stats |-> domain_stat,
                   dns_a |-> dns_a.value, dns_mx |-> dns_mx.value,
                   dns_ns |-> dns_ns.value, dns_txt |-> dns_txt.value,
                   quad9_blocked |-> quad9, cloudflare_blocked |-> cloudflare,
                   spamhaus_result |-> spamhaus.value, surbl_result |-> surbl.value,
                   domain_age_days |-> rdap[1], registrar |-> rdap[2],
                   creation_date |-> rdap[3],
                   otx_pulse_count |-> otx[1], otx_malware_count |-> otx[2],
                   otx_tags |-> otx[3] ])

(* enrichment.py:266-277: the awaitables of one _enrich_one call, in the    *)
(* order they are passed to asyncio.gather                                  *)
Awaitables ==
    << "dns_a", "dns_mx", "dns_ns", "dns_txt", "quad9", "cloudflare", "spamhaus", "surbl",
       "rdap", "otx" >>

(* enrichment.py:266-277: what awaitable a comes to when the domain's       *)
(* subprocesses do as plan says                                             *)
Await(a, plan) ==
    CASE a = "quad9" -> Ret(_check_quad9(plan["quad9_filtered"], plan["quad9_unfiltered"]))
      [] a = "cloudflare" ->
            Ret(_check_cloudflare(plan["cloudflare_filtered"], plan["cloudflare_unfiltered"]))
      [] a = "spamhaus" -> _check_spamhaus(plan["spamhaus"])
      [] a = "surbl" -> _check_surbl(plan["surbl"])
      [] a = "rdap" -> Ret(_check_rdap(plan["rdap"]))
      [] a = "otx" -> Ret(_check_otx(plan["otx"]))
      [] OTHER -> _resolve(plan[a])

(* the unpacking with dns_mx taking the first result of the gather *)
Unpack_FirstResultTwice(domain_stat, g) ==
    [ stats |-> domain_stat,
      dns_a |-> g["dns_a"][1], dns_mx |-> g["dns_a"][1],
      dns_ns |-> g["dns_ns"][1], dns_txt |-> g["dns_txt"][1],
      quad9_blocked |-> g["quad9"][1], cloudflare_blocked |-> g["cloudflare"][1],
      spamhaus_result |-> g["spamhaus"][1], surbl_result |-> g["surbl"][1],
      domain_age_days |-> g["rdap"][1][1], registrar |-> g["rdap"][1][2],
      creation_date |-> g["rdap"][1][3],
      otx_pulse_count |-> g["otx"][1][1], otx_malware_count |-> g["otx"][1][2],
      otx_tags |-> g["otx"][1][3] ]

(* enrichment.py:258-294: the results of the gather, which come in the      *)
(* order of its awaitables, are unpacked into the fields of the record      *)
Unpack(domain_stat, g) ==
    [ stats |-> domain_stat,
      dns_a |-> g["dns_a"][1], dns_mx |-> g["dns_mx"][1],
      dns_ns |-> g["dns_ns"][1], dns_txt |-> g["dns_txt"][1],
      quad9_blocked |-> g["quad9"][1], cloudflare_blocked |-> g["cloudflare"][1],
      spamhaus_result |-> g["spamhaus"][1], surbl_result |-> g["surbl"][1],
      domain_age_days |-> g["rdap"][1][1], registrar |-> g["rdap"][1][2],
      creation_date |-> g["rdap"][1][3],
      otx_pulse_count |-> g["otx"][1][1], otx_malware_count |-> g["otx"][1][2],
      otx_tags |-> g["otx"][1][3] ]

(* enrichment.py:47-95.  The text is kept as its two lines: head, the parts *)
(* of the first line, and intel, the items that " | " joins on the second   *)
(* (each an item's fixed words followed by the values it prints).  A test   *)
(* "if self.x" is Python truth: None, False, 0 and "" fail it.              *)
First(xs, n) == SubSeq(xs, 1, Min(n, Len(xs)))

NoSignals == << << "no signals (not listed in any blocklist)" >> >>

format_for_prompt(d) ==
    LET signals ==
               (IF d.quad9_blocked = Some(TRUE)
                THEN << << "BLOCKED by Quad9 (malicious)" >> >> ELSE << >>)
            \o (IF d.cloudflare_blocked = Some(TRUE)
                THEN << << "BLOCKED by Cloudflare (malicious)" >> >> ELSE << >>)
            \o (IF d.spamhaus_result # None /\ d.spamhaus_result[1] # ""
                THEN << << "Spamhaus: ", d.spamhaus_result[1] >> >> ELSE << >>)
            \o (IF d.surbl_result # None /\ d.surbl_result[1] # << >>
                THEN << << "SURBL: ", d.surbl_result[1] >> >> ELSE << >>)
            \o (IF d.domain_age_days = None THEN << >>
                ELSE IF d.domain_age_days[1] < 30
                THEN << << "Domain age: ", d.domain_age_days[1], " days (NEW)" >> >>
                ELSE IF d.domain_age_days[1] < 365
                THEN << << "Domain age: ", d.domain_age_days[1], " days" >> >>
                ELSE << >>)
            \o (IF d.registrar # None /\ d.registrar[1] # ""
                THEN << << "Registrar: ", d.registrar[1] >> >> ELSE << >>)
            \o (IF d.otx_pulse_count # None /\ d.otx_pulse_count[1] > 0
                THEN << << "AlienVault OTX: ", d.otx_pulse_count[1], " threat reports" >> >>
                ELSE << >>)
            \o (IF d.otx_malware_count # None /\ d.otx_malware_count[1] > 0
                THEN << << "OTX malware samples: ", d.otx_malware_count[1] >> >> ELSE << >>)
            \o (IF d.dns_a # << >> THEN << << "A: ", First(d.dns_a, 3) >> >> ELSE << >>)
            \o (IF d.dns_mx # << >> THEN << << "MX: ", First(d.dns_mx, 2) >> >> ELSE << >>)
            \o (IF d.dns_ns # << >> THEN << << "NS: ", First(d.dns_ns, 2) >> >> ELSE << >>)
    IN  [ head |-> << d.stats.domain, d.stats.query_count,
                      First(d.stats.unique_clients, 5), d.stats.query_types >>,
          intel |-> IF signals # << >> THEN signals ELSE NoSignals ]

(* What the network does.  NominalPlan: every resolver answers, both zones    *)
(* are clean, RDAP and OTX answer.                                            *)
NoData == [events |-> << >>, entities |-> << >>, count |-> None, malware |-> << >>, pulses |-> << >>]

RdapData ==
    [ NoData EXCEPT
        !.events = << [eventAction |-> "registration",
                       eventDate |-> Some([text |-> "2001-01-01", parses |-> TRUE, age |-> 9000])] >>,
        !.entities = << [roles |-> { "registrar" }, vcard_ok |-> TRUE, fn |-> Some("reg")] >> ]

OtxData == [NoData EXCEPT !.count = Some(0)]

NominalPlan ==
    [c \in Calls |->
        CASE c = "rdap" -> Curl("json", RdapData)
          [] c = "otx" -> Curl("json", OtxData)
          [] c \in { "spamhaus", "surbl" } -> Dig("lines", << >>)
          [] OTHER -> Dig("lines", << << 192, 0, 2, 1 >> >>)]

(* The ways one subprocess can depart from NominalPlan *)
Departures(c) ==
    IF c \in CurlCalls
    THEN { Curl(k, NoData) : k \in { "timeout", "garbage", "oserror" } }
    ELSE { Dig(k, << >>) : k \in { "timeout", "nodig", "oserror", "baddata" } }
         \cup (IF c \in { "spamhaus", "surbl" }
               THEN { Dig("lines", << << 127, 0, 1, 5 >> >>), Dig("lines", << << 127, 0, 0, 24 >> >>) }
               ELSE { Dig("lines", << >>), Dig("lines", << << 0, 0, 0, 0 >> >>) })

SingleFaultPlans ==
    { NominalPlan } \cup
    UNION { { [NominalPlan EXCEPT ![c] = o] : o \in Departures(c) } : c \in Calls }

(* For the whole run: the network is nominal, or one lookup degrades, or one   *)
(* subprocess cannot be started.                                               *)
CoarsePlans ==
    { NominalPlan,
      [NominalPlan EXCEPT !["rdap"] = Curl("timeout", NoData)],
      [NominalPlan EXCEPT !["dns_mx"] = Dig("oserror", << >>)] }

PlansOf(w) == IF w.network = "coarse" THEN CoarsePlans ELSE SingleFaultPlans

(* What the model endpoint may answer to the request for a batch *)
ConfidenceSamples == { 0, 100 }

Singles(batch) ==
    { SingleEvaluation(d, l, c) :
        d \in { DomainOf(batch[i]) : i \in DOMAIN batch } \cup { DomH },
        l \in ThreatLevel, c \in ConfidenceSamples }

FailedReply == [kind |-> "fail", evaluations |-> << >>]

(* an answer whose confidence is outside the bounds of the schema *)
OutOfRangeReplies(batch) ==
    { [kind |-> "ok", evaluations |-> << SingleEvaluation(DomainOf(batch[i]), "malicious", c) >>] :
        i \in DOMAIN batch, c \in { -1, 101 } }

Replies(batch) ==
    { FailedReply } \cup OutOfRangeReplies(batch) \cup
    { [kind |-> "ok", evaluations |-> e] : e \in SeqsUpTo(Singles(batch), MaxReply) }

CoarseReplies(batch) ==
    { FailedReply,
      [kind |-> "ok", evaluations |-> << >>],
      [kind |-> "ok", evaluations |->
            [i \in DOMAIN batch |-> SingleEvaluation(DomainOf(batch[i]), "malicious", 100)]] }

RepliesOf(w, batch) == IF w.network = "coarse" THEN CoarseReplies(batch) ELSE Replies(batch)

-----------------------------------------------------------------------------
(* The coordinator, main.run() *)

(* The stages of run() in program order, main.py:42-115; trace logs each    *)
(* stage as it starts ("classify" once per evaluate_batch call)             *)
Stages ==
    << "fetch_stats", "filter", "fetch_already", "dedup", "enrich", "fetch_previous",
       "classify", "tally", "store", "alert", "summary" >>

Idle ==
    /\ domain_stats = << >> /\ filtered = << >> /\ already_evaluated = {}
    /\ to_evaluate = << >> /\ stats = NewRunStats
    /\ enrich_in = << >> /\ concurrency = DefaultConcurrency /\ sem = 0
    /\ task = << >> /\ results = << >> /\ enriched = << >>
    /\ previous = << >> /\ batches = << >> /\ batch_i = 1
    /\ all_evaluations = << >> /\ agent_runs = << >> /\ ret = None
    /\ stored = << >> /\ out = << >> /\ summary_h = 1 /\ trace = << >>
    /\ caught = << >> /\ gathered = << >>

(* main.py:30-40 have run: stats, handlers and the data source exist *)
Init ==
    /\ world \in Worlds
    /\ pc = "fetch_stats"
    /\ Idle

(* The function under study returns to its caller: run() goes on with stage *)
Continue(stage) == IF world.entry = "run" THEN stage ELSE "done"

(* The stats fetch without the "if not domain_stats" stop of main.py:47-50 *)
FetchDomainStats_NoEarlyStop ==
    /\ pc = "fetch_stats"
    /\ \E fault \in StorageFaults :
        LET r == fetch_domain_stats(world, fault).value
        IN  /\ domain_stats' = r
            /\ stats' = [stats EXCEPT !.total_domains_queried = Len(r)]
            /\ caught' = CASE fault = "open" -> Append(caught, "pihole_db_open_failed")
                            [] fault = "query" -> Append(caught, "pihole_db_query_failed")
                            [] OTHER -> caught
    /\ pc' = "filter"
    /\ trace' = Append(trace, "fetch_stats")
    /\ UNCHANGED << world, filtered, already_evaluated, to_evaluate, enrich_in, concurrency,
                    sem, task, results, enriched, previous, batches, batch_i,
                    all_evaluations, agent_runs, ret, stored, out, summary_h, gathered >>

(* main.py:42-50 *)
FetchDomainStats ==
    /\ pc = "fetch_stats"
    /\ \E fault \in StorageFaults :
        LET r == fetch_domain_stats(world, fault).value
        IN  /\ domain_stats' = r
            /\ stats' = [stats EXCEPT !.total_domains_queried = Len(r)]
            /\ caught' = CASE fault = "open" -> Append(caught, "pihole_db_open_failed")
                            [] fault = "query" -> Append(caught, "pihole_db_query_failed")
                            [] OTHER -> caught
            /\ pc' = IF r = << >> THEN "summary_empty" ELSE "filter"
    /\ trace' = Append(trace, "fetch_stats")
    /\ UNCHANGED << world, filtered, already_evaluated, to_evaluate, enrich_in, concurrency,
                    sem, task, results, enriched, previous, batches, batch_i,
                    all_evaluations, agent_runs, ret, stored, out, summary_h, gathered >>

(* main.py:52-54 *)
FilterKnownGood ==
    /\ pc = "filter"
    /\ filtered' = filter_known_good(domain_stats)
    /\ stats' = [stats EXCEPT !.domains_after_filtering = Len(filtered')]
    /\ pc' = "fetch_already"
    /\ trace' = Append(trace, "filter")
    /\ UNCHANGED << world, domain_stats, already_evaluated, to_evaluate, enrich_in,
                    concurrency, sem, task, results, enriched, previous, batches, batch_i,
                    all_evaluations, agent_runs, ret, stored, out, summary_h, caught, gathered >>

(* main.py:56-58 *)
FetchAlreadyEvaluated ==
    /\ pc = "fetch_already"
    /\ \E fault \in StorageFaults :
        LET r == fetch_already_evaluated_domains(world, fault)
        IN  /\ caught' = IF fault = "query"
                         THEN Append(caught, "fetch_already_evaluated_failed") ELSE caught
            /\ IF r.raised
               THEN /\ pc' = "crashed"
                    /\ ret' = r
                    /\ UNCHANGED << already_evaluated, stats >>
               ELSE /\ already_evaluated' = r.value
                    /\ stats' = [stats EXCEPT !.domains_already_evaluated = Cardinality(r.value)]
                    /\ pc' = "dedup"
                    /\ ret' = ret
    /\ trace' = Append(trace, "fetch_already")
    /\ UNCHANGED << world, domain_stats, filtered, to_evaluate, enrich_in, concurrency,
                    sem, task, results, enriched, previous, batches, batch_i,
                    all_evaluations, agent_runs, stored, out, summary_h, gathered >>

(* main.py:59-66 *)
RemoveAlreadyEvaluated ==
    /\ pc = "dedup"
    /\ to_evaluate' = remove_already_evaluated(filtered, already_evaluated)
    /\ stats' = [stats EXCEPT !.domains_to_evaluate = Len(to_evaluate')]
    /\ pc' = IF to_evaluate' = << >> THEN "summary_empty" ELSE "enrich"
    /\ trace' = Append(trace, "dedup")
    /\ UNCHANGED << world, domain_stats, filtered, already_evaluated, enrich_in,
                    concurrency, sem, task, results, enriched, previous, batches, batch_i,
                    all_evaluations, agent_runs, ret, stored, out, summary_h, caught, gathered >>

(* main.py:69 calls enrichment.py:297-312: the semaphore and one _limited   *)
(* task per input are created                                              *)
EnrichDomains ==
    /\ pc = "enrich"
    /\ enrich_in' = to_evaluate
    /\ sem' = concurrency
    /\ task' = [i \in DOMAIN to_evaluate |-> "waiting"]
    /\ results' = [i \in DOMAIN to_evaluate |-> None]
    /\ pc' = "enriching"
    /\ trace' = Append(trace, "enrich")
    /\ UNCHANGED << world, domain_stats, filtered, already_evaluated, to_evaluate, stats,
                    concurrency, enriched, previous, batches, batch_i,
                    all_evaluations, agent_runs, ret, stored, out, summary_h, caught, gathered >>

(* _limited without "async with sem": a task starts whatever the semaphore holds *)
LimitedAcquire_NoSemaphore(i) ==
    /\ pc = "enriching"
    /\ task[i] = "waiting"
    /\ sem' = sem - 1
    /\ task' = [task EXCEPT ![i] = "running"]
    /\ UNCHANGED << pc, world, domain_stats, filtered, already_evaluated, to_evaluate, stats,
                    enrich_in, concurrency, results, enriched, previous, batches, batch_i,
                    all_evaluations, agent_runs, ret, stored, out, summary_h, trace, caught, gathered >>

(* enrichment.py:307-308: "async with sem" is entered *)
LimitedAcquire(i) ==
    /\ pc = "enriching"
    /\ task[i] = "waiting"
    /\ sem > 0
    /\ sem' = sem - 1
    /\ task' = [task EXCEPT ![i] = "running"]
    /\ UNCHANGED << pc, world, domain_stats, filtered, already_evaluated, to_evaluate, stats,
                    enrich_in, concurrency, results, enriched, previous, batches, batch_i,
                    all_evaluations, agent_runs, ret, stored, out, summary_h, trace, caught, gathered >>

(* enrichment.py:309 and 255-294: the lookups of domain i are over; the     *)
(* semaphore is released on return and on exception alike.  An exception    *)
(* leaves _limited, then the gather of enrich_domains, then enrich_domains. *)
EnrichOneDone(i) ==
    /\ pc = "enriching"
    /\ task[i] = "running"
    /\ \E plan \in PlansOf(world) :
        LET r == _enrich_one(enrich_in[i], plan)
        IN  IF r.raised
            THEN /\ task' = [task EXCEPT ![i] = "raised"]
                 /\ pc' = "crashed"
                 /\ ret' = r
                 /\ UNCHANGED results
            ELSE /\ task' = [task EXCEPT ![i] = "done"]
                 /\ results' = [results EXCEPT ![i] = Some(r.value)]
                 /\ UNCHANGED << pc, ret >>
    /\ sem' = sem + 1
    /\ UNCHANGED << world, domain_stats, filtered, already_evaluated, to_evaluate, stats,
                    enrich_in, concurrency, enriched, previous, batches, batch_i,
                    all_evaluations, agent_runs, stored, out, summary_h, trace, caught, gathered >>

(* enrichment.py:312-314: every task has returned *)
EnrichDomainsReturn ==
    /\ pc = "enriching"
    /\ \A i \in DOMAIN task : task[i] = "done"
    /\ enriched' = [i \in DOMAIN results |-> results[i][1]]
    /\ pc' = Continue("fetch_previous")
    /\ ret' = IF world.entry = "run" THEN ret ELSE Ret(enriched')
    /\ UNCHANGED << world, domain_stats, filtered, already_evaluated, to_evaluate, stats,
                    enrich_in, concurrency, sem, task, results, previous, batches, batch_i,
                    all_evaluations, agent_runs, stored, out, summary_h, trace, caught, gathered >>

(* the fetch of the learning context made again before the batches are cut *)
FetchPreviousEvaluations_Repeats ==
    /\ pc = "fetch_previous"
    /\ \E fault \in StorageFaults :
        LET r == fetch_previous_evaluations(world, fault)
        IN  /\ caught' = IF fault = "query"
                         THEN Append(caught, "fetch_previous_evaluations_failed") ELSE caught
            /\ IF r.raised
               THEN /\ pc' = "crashed"
                    /\ ret' = r
                    /\ UNCHANGED previous
               ELSE /\ previous' = r.value
                    /\ pc' = IF "fetch_previous" \in Range(trace) THEN "batch" ELSE "fetch_previous"
                    /\ ret' = ret
    /\ trace' = Append(trace, "fetch_previous")
    /\ UNCHANGED << world, domain_stats, filtered, already_evaluated, to_evaluate, stats,
                    enrich_in, concurrency, sem, task, results, enriched, batches, batch_i,
                    all_evaluations, agent_runs, stored, out, summary_h, gathered >>

(* main.py:71-72 *)
FetchPreviousEvaluations ==
    /\ pc = "fetch_previous"
    /\ \E fault \in StorageFaults :
        LET r == fetch_previous_evaluations(world, fault)
        IN  /\ caught' = IF fault = "query"
                         THEN Append(caught, "fetch_previous_evaluations_failed") ELSE caught
            /\ IF r.raised
               THEN /\ pc' = "crashed"
                    /\ ret' = r
                    /\ UNCHANGED previous
               ELSE /\ previous' = r.value
                    /\ pc' = "batch"
                    /\ ret' = ret
    /\ trace' = Append(trace, "fetch_previous")
    /\ UNCHANGED << world, domain_stats, filtered, already_evaluated, to_evaluate, stats,
                    enrich_in, concurrency, sem, task, results, enriched, batches, batch_i,
                    all_evaluations, agent_runs, stored, out, summary_h, gathered >>

(* main.py:74-77 *)
MakeBatches ==
    /\ pc = "batch"
    /\ batches' = Slices(enriched, world.batch_size)
    /\ all_evaluations' = << >>
    /\ batch_i' = 1
    /\ pc' = IF batches' = << >> THEN "tally" ELSE "classify"
    /\ UNCHANGED << world, domain_stats, filtered, already_evaluated, to_evaluate, stats,
                    enrich_in, concurrency, sem, task, results, enriched, previous,
                    agent_runs, ret, stored, out, summary_h, trace, caught, gathered >>

(* main.py:79-86, one iteration of the batch loop *)
EvaluateBatch ==
    /\ pc = "classify"
    /\ batch_i <= Len(batches)
    /\ \E reply \in RepliesOf(world, batches[batch_i]) :
        LET r == evaluate_batch(batches[batch_i], previous, reply, world.ollama_model, world.now)
            requests == r.value[2]
            evaluations == r.value[1]
        IN  /\ agent_runs' = Append(agent_runs, IF requests = 1 THEN << reply >> ELSE << >>)
            /\ caught' = IF requests = 1 /\ ModelCallFails(reply)
                         THEN Append(caught, "llm_batch_failed") ELSE caught
            /\ IF r.raised
               THEN /\ pc' = "crashed"
                    /\ ret' = r
                    /\ UNCHANGED << all_evaluations, stats, batch_i >>
               ELSE /\ all_evaluations' = all_evaluations \o evaluations
                    /\ stats' = [stats EXCEPT
                            !.batches_processed = @ + 1,
                            !.errors = IF evaluations = << >> THEN @ + 1 ELSE @]
                    /\ batch_i' = batch_i + 1
                    /\ pc' = IF batch_i = Len(batches) THEN "tally" ELSE "classify"
                    /\ ret' = ret
    /\ trace' = Append(trace, "classify")
    /\ UNCHANGED << world, domain_stats, filtered, already_evaluated, to_evaluate,
                    enrich_in, concurrency, sem, task, results, enriched, previous, batches,
                    stored, out, summary_h, gathered >>

(* The tally whose suspicious case falls through into the malicious one *)
TallyOf_FallsThrough(evs, st) ==
    [st EXCEPT
        !.benign_count = @ + Count(evs, LAMBDA e : e.threat_level = "benign"),
        !.suspicious_count = @ + Count(evs, LAMBDA e : e.threat_level = "suspicious"),
        !.malicious_count = @ + Count(evs, LAMBDA e : e.threat_level \in { "suspicious", "malicious" }),
        !.unknown_count = @ + Count(evs, LAMBDA e : e.threat_level = "unknown"),
        !.escalations = @ + Count(evs, LAMBDA e : e.escalated),
        !.evaluations_produced = Len(evs)]

(* main.py:88-101 *)
TallyOf(evs, st) ==
    [st EXCEPT
        !.benign_count = @ + Count(evs, LAMBDA e : e.threat_level = "benign"),
        !.suspicious_count = @ + Count(evs, LAMBDA e : e.threat_level = "suspicious"),
        !.malicious_count = @ + Count(evs, LAMBDA e : e.threat_level = "malicious"),
        !.unknown_count = @ + Count(evs, LAMBDA e : e.threat_level = "unknown"),
        !.escalations = @ + Count(evs, LAMBDA e : e.escalated),
        !.evaluations_produced = Len(evs)]

(* The tally going on to the alerts, the store call left out *)
Tally_SkipsStore ==
    /\ pc = "tally"
    /\ stats' = TallyOf(all_evaluations, stats)
    /\ pc' = "alert"
    /\ trace' = Append(trace, "tally")
    /\ UNCHANGED << world, domain_stats, filtered, already_evaluated, to_evaluate,
                    enrich_in, concurrency, sem, task, results, enriched, previous, batches,
                    batch_i, all_evaluations, agent_runs, ret, stored, out, summary_h, caught, gathered >>

Tally ==
    /\ pc = "tally"
    /\ stats' = TallyOf(all_evaluations, stats)
    /\ pc' = "store"
    /\ trace' = Append(trace, "tally")
    /\ UNCHANGED << world, domain_stats, filtered, already_evaluated, to_evaluate,
                    enrich_in, concurrency, sem, task, results, enriched, previous, batches,
                    batch_i, all_evaluations, agent_runs, ret, stored, out, summary_h, caught, gathered >>

(* main.py:103-105 *)
StoreEvaluations ==
    /\ pc = "store"
    /\ \E fault \in StorageFaults :
        LET r == store_evaluations(all_evaluations, fault)
        IN  /\ caught' = IF fault = "query" /\ all_evaluations # << >>
                         THEN Append(caught, "sqlite_store_failed") ELSE caught
            /\ IF r.raised
               THEN /\ pc' = "crashed"
                    /\ ret' = r
                    /\ UNCHANGED stored
               ELSE /\ stored' = r.value[2]
                    /\ pc' = "alert"
                    /\ ret' = ret
    /\ trace' = Append(trace, "store")
    /\ UNCHANGED << world, domain_stats, filtered, already_evaluated, to_evaluate, stats,
                    enrich_in, concurrency, sem, task, results, enriched, previous, batches,
                    batch_i, all_evaluations, agent_runs, out, summary_h, gathered >>

(* The alert loop without its threat-level test: every evaluation alerts *)
AlertCalls_AnyLevel(evs, handlers) ==
    Concat([i \in DOMAIN evs |->
        [h \in DOMAIN handlers |->
            [kind |-> "alert", handler |-> handlers[h], evaluations |-> << evs[i] >>,
             stats |-> NewRunStats]]])

(* main.py:108-111 with output.py:49-56 and 97-99: the emit_alert calls, in order *)
AlertCalls(evs, handlers) ==
    Concat([i \in DOMAIN evs |->
        IF evs[i].threat_level \in { "suspicious", "malicious" }
        THEN [h \in DOMAIN handlers |->
                [kind |-> "alert", handler |-> handlers[h], evaluations |-> << evs[i] >>,
                 stats |-> NewRunStats]]
        ELSE << >>])

EmitAlerts ==
    /\ pc = "alert"
    /\ out' = out \o AlertCalls(all_evaluations, Handlers(world))
    /\ pc' = "summary"
    /\ summary_h' = 1
    /\ trace' = Append(trace, "alert")
    /\ UNCHANGED << world, domain_stats, filtered, already_evaluated, to_evaluate, stats,
                    enrich_in, concurrency, sem, task, results, enriched, previous, batches,
                    batch_i, all_evaluations, agent_runs, ret, stored, caught, gathered >>

(* One iteration of "for h in handlers: h.emit_summary(evaluations, stats)", *)
(* main.py:48-50, 64-66 (with []) and 114-115 (with all_evaluations).        *)
(* output.py:82-85: EmailHandler.emit_summary sends over SMTP, uncaught.     *)
EmitSummary ==
    /\ pc \in { "summary_empty", "summary" }
    /\ summary_h <= Len(Handlers(world))
    /\ LET h == Handlers(world)[summary_h]
           arg == IF pc = "summary_empty" THEN << >> ELSE all_evaluations
       IN  /\ out' = Append(out, [kind |-> "summary", handler |-> h, evaluations |-> arg,
                                  stats |-> stats])
           /\ \E smtp_ok \in BOOLEAN :
                IF h = "email" /\ ~ smtp_ok
                THEN /\ pc' = "crashed"
                     /\ ret' = Raise("SMTPException")
                     /\ summary_h' = summary_h
                ELSE /\ pc' = IF summary_h = Len(Handlers(world)) THEN "done" ELSE pc
                     /\ summary_h' = summary_h + 1
                     /\ ret' = ret
    /\ trace' = IF summary_h = 1 THEN Append(trace, "summary") ELSE trace
    /\ UNCHANGED << world, domain_stats, filtered, already_evaluated, to_evaluate, stats,
                    enrich_in, concurrency, sem, task, results, enriched, previous, batches,
                    batch_i, all_evaluations, agent_runs, stored, caught, gathered >>

(* run() as main.py wires it.  The stages after the batch loop (Tally,       *)
(* StoreEvaluations, EmitAlerts) are actions of NextReport below: no state   *)
(* of Spec enables them, see TailUnreachable.                                *)
Next ==
    \/ FetchDomainStats
    \/ FilterKnownGood
    \/ FetchAlreadyEvaluated
    \/ RemoveAlreadyEvaluated
    \/ EnrichDomains
    \/ \E i \in DOMAIN task : LimitedAcquire(i)
    \/ \E i \in DOMAIN task : EnrichOneDone(i)
    \/ EnrichDomainsReturn
    \/ FetchPreviousEvaluations
    \/ MakeBatches
    \/ EvaluateBatch
    \/ EmitSummary

Spec == Init /\ [][Next]_vars

RunOver == pc \in { "done", "crashed" }

TailUnreachable == pc \notin { "tally", "store", "alert", "summary" }

-----------------------------------------------------------------------------
(* enrich_domains(domain_stats, concurrency) on its own inputs *)

EnrichNames == << DomB, DomN, DomA, DomL, DomH >>

(* Up to two domains meet every single-fault plan of the network; more      *)
(* domains meet the coarse plans, in every interleaving.                    *)
InitEnrich ==
    /\ \E n \in 0..MaxEnrich :
        /\ to_evaluate = [i \in 1..n |-> StatsOf(EnrichNames[i])]
        /\ world = [ entry |-> "enrich_domains",
                     network |-> IF n <= 2 THEN "fine" ELSE "coarse",
                     now |-> 100, log |-> << >>, db |-> << >>, batch_size |-> 1,
                     email_enabled |-> FALSE, ollama_model |-> "m1" ]
    /\ pc = "enrich"
    /\ concurrency \in 1..MaxConcurrency
    /\ domain_stats = << >> /\ filtered = << >> /\ already_evaluated = {}
    /\ stats = NewRunStats /\ enrich_in = << >> /\ sem = 0
    /\ task = << >> /\ results = << >> /\ enriched = << >>
    /\ previous = << >> /\ batches = << >> /\ batch_i = 1
    /\ all_evaluations = << >> /\ agent_runs = << >> /\ ret = None
    /\ stored = << >> /\ out = << >> /\ summary_h = 1 /\ trace = << >>
    /\ caught = << >> /\ gathered = << >>

NextEnrich ==
    \/ EnrichDomains
    \/ \E i \in DOMAIN task : LimitedAcquire(i)
    \/ \E i \in DOMAIN task : EnrichOneDone(i)
    \/ EnrichDomainsReturn

SpecEnrich == InitEnrich /\ [][NextEnrich]_vars

-----------------------------------------------------------------------------
(* enrich_domains with the lookups of a domain taken one at a time: the     *)
(* ten awaitables of an _enrich_one call complete in any order, and the     *)
(* calls of different domains follow each other in any order.  Each domain *)
(* has its own plan.  One domain meets every single-fault plan; two domains *)
(* meet a nominal network and a degraded one, either way round, one call at *)
(* a time (SpecEnrich has the calls of several domains overlap).            *)

DegradedPlan ==
    [NominalPlan EXCEPT !["dns_mx"] = Dig("lines", << >>),
                        !["quad9_filtered"] = Dig("lines", << >>),
                        !["spamhaus"] = Dig("lines", << << 127, 0, 1, 5 >> >>),
                        !["rdap"] = Curl("timeout", NoData)]

GatherPlans ==
    { << p >> : p \in SingleFaultPlans }
    \cup { << NominalPlan, DegradedPlan >>, << DegradedPlan, NominalPlan >> }

InitGather ==
    /\ \E plans \in GatherPlans :
        /\ to_evaluate = [i \in DOMAIN plans |-> StatsOf(EnrichNames[i])]
        /\ world = [ entry |-> "enrich_domains", network |-> "fine", plans |-> plans,
                     now |-> 100, log |-> << >>, db |-> << >>, batch_size |-> 1,
                     email_enabled |-> FALSE, ollama_model |-> "m1" ]
        /\ gathered = [i \in DOMAIN plans |-> [a \in Range(Awaitables) |-> None]]
    /\ pc = "enrich"
    /\ concurrency \in (IF Len(to_evaluate) = 1 THEN { 1, DefaultConcurrency } ELSE { 1 })
    /\ domain_stats = << >> /\ filtered = << >> /\ already_evaluated = {}
    /\ stats = NewRunStats /\ enrich_in = << >> /\ sem = 0
    /\ task = << >> /\ results = << >> /\ enriched = << >>
    /\ previous = << >> /\ batches = << >> /\ batch_i = 1
    /\ all_evaluations = << >> /\ agent_runs = << >> /\ ret = None
    /\ stored = << >> /\ out = << >> /\ summary_h = 1 /\ trace = << >>
    /\ caught = << >>

(* enrichment.py:266-277: awaitable a of the call for domain i is over.  An *)
(* exception leaves the gather at once, then _enrich_one, then _limited,    *)
(* which releases the semaphore, then enrich_domains.                       *)
AwaitDone(i, a) ==
    /\ pc = "enriching"
    /\ task[i] = "running"
    /\ gathered[i][a] = None
    /\ LET r == Await(a, world.plans[i])
       IN  IF r.raised
           THEN /\ task' = [task EXCEPT ![i] = "raised"]
                /\ pc' = "crashed"
                /\ ret' = Raise("lookup")
                /\ sem' = sem + 1
                /\ UNCHANGED gathered
           ELSE /\ gathered' = [gathered EXCEPT ![i][a] = Some(r.value)]
                /\ UNCHANGED << task, pc, ret, sem >>
    /\ UNCHANGED << world, domain_stats, filtered, already_evaluated, to_evaluate, stats,
                    enrich_in, concurrency, results, enriched, previous, batches, batch_i,
                    all_evaluations, agent_runs, stored, out, summary_h, trace, caught >>

(* enrichment.py:279-294 and 307-309: every awaitable of the call is over,  *)
(* the record is filled and returned, the semaphore released                *)
EnrichOneReturn(i) ==
    /\ pc = "enriching"
    /\ task[i] = "running"
    /\ \A a \in Range(Awaitables) : gathered[i][a] # None
    /\ results' = [results EXCEPT ![i] = Some(Unpack(enrich_in[i], gathered[i]))]
    /\ task' = [task EXCEPT ![i] = "done"]
    /\ sem' = sem + 1
    /\ UNCHANGED << pc, world, domain_stats, filtered, already_evaluated, to_evaluate, stats,
                    enrich_in, concurrency, enriched, previous, batches, batch_i,
                    all_evaluations, agent_runs, ret, stored, out, summary_h, trace, caught,
                    gathered >>

NextGather ==
    \/ EnrichDomains
    \/ \E i \in DOMAIN task : LimitedAcquire(i)
    \/ \E i \in DOMAIN task, a \in Range(Awaitables) : AwaitDone(i, a)
    \/ \E i \in DOMAIN task : EnrichOneReturn(i)
    \/ EnrichDomainsReturn

SpecGather == InitGather /\ [][NextGather]_vars

-----------------------------------------------------------------------------
(* evaluate_batch(batch, previous_evaluations) on its own inputs: members   *)
(* of the declared type DomainStats and of the type run() passes,           *)
(* EnrichedDomain.                                                          *)

BatchMembers ==
    { StatsOf(DomB), StatsOf(DomN), _enrich_one(StatsOf(DomB), NominalPlan).value }

InitAgent ==
    /\ world = [ entry |-> "evaluate_batch", network |-> "fine", now |-> 100, log |-> << >>,
                 db |-> << >>, batch_size |-> 1, email_enabled |-> FALSE,
                 ollama_model |-> "m1" ]
    /\ pc = "evaluate_batch"
    /\ \E b \in SeqsUpTo(BatchMembers, MaxBatch) : batches = << b >>
    /\ previous \in { << >>, << _row_to_evaluation(StoredRow(DomB, "malicious", 99)) >> }
    /\ domain_stats = << >> /\ filtered = << >> /\ already_evaluated = {}
    /\ to_evaluate = << >> /\ stats = NewRunStats
    /\ enrich_in = << >> /\ concurrency = DefaultConcurrency /\ sem = 0
    /\ task = << >> /\ results = << >> /\ enriched = << >> /\ batch_i = 1
    /\ all_evaluations = << >> /\ agent_runs = << >> /\ ret = None
    /\ stored = << >> /\ out = << >> /\ summary_h = 1 /\ trace = << >>
    /\ caught = << >> /\ gathered = << >>

(* agent.py:78-149, the whole call *)
EvaluateBatchCall ==
    /\ pc = "evaluate_batch"
    /\ \E reply \in RepliesOf(world, batches[1]) :
        LET r == evaluate_batch(batches[1], previous, reply, world.ollama_model, world.now)
        IN  /\ agent_runs' = << IF r.value[2] = 1 THEN << reply >> ELSE << >> >>
            /\ ret' = [raised |-> r.raised, value |-> r.value[1]]
            /\ caught' = IF r.value[2] = 1 /\ ModelCallFails(reply)
                         THEN Append(caught, "llm_batch_failed") ELSE caught
            /\ pc' = IF r.raised THEN "crashed" ELSE "done"
    /\ UNCHANGED << world, domain_stats, filtered, already_evaluated, to_evaluate, stats,
                    enrich_in, concurrency, sem, task, results, enriched, previous, batches,
                    batch_i, all_evaluations, stored, out, summary_h, trace, gathered >>

NextAgent == EvaluateBatchCall

SpecAgent == InitAgent /\ [][NextAgent]_vars

-----------------------------------------------------------------------------
(* The reporting stage of run(), main.py:88-115, on its own inputs: every    *)
(* list of DomainEvaluation records, with the escalated flag set or not.     *)

Evaluations ==
    { [DomainEvaluation(d, l, 100, "m1", Len(d), << << "c", "1" >> >>, 100) EXCEPT !.escalated = x] :
        d \in { DomB, DomN }, l \in ThreatLevel, x \in BOOLEAN }

InitReport ==
    /\ world \in { [ entry |-> "report", network |-> "coarse", now |-> 100, log |-> << >>,
                     db |-> << >>, batch_size |-> 1, email_enabled |-> e,
                     ollama_model |-> "m1" ] : e \in BOOLEAN }
    /\ pc = "tally"
    /\ all_evaluations \in SeqsUpTo(Evaluations, MaxEvals)
    /\ domain_stats = << >> /\ filtered = << >> /\ already_evaluated = {}
    /\ to_evaluate = << >> /\ stats = NewRunStats
    /\ enrich_in = << >> /\ concurrency = DefaultConcurrency /\ sem = 0
    /\ task = << >> /\ results = << >> /\ enriched = << >>
    /\ previous = << >> /\ batches = << >> /\ batch_i = 1
    /\ agent_runs = << >> /\ ret = None
    /\ stored = << >> /\ out = << >> /\ summary_h = 1
    /\ trace = SubSeq(Stages, 1, 7) /\ caught = << >> /\ gathered = << >>

NextReport ==
    \/ Tally
    \/ StoreEvaluations
    \/ EmitAlerts
    \/ EmitSummary

SpecReport == InitReport /\ [][NextReport]_vars

-----------------------------------------------------------------------------
(* The resolver-pair and zone lookups of enrichment.py on their own inputs: *)
(* world.f and world.u are what the dig subprocesses of the call do (the    *)
(* filtered and the unfiltered resolver of a pair; a zone lookup starts one *)
(* subprocess, world.f).                                                    *)

MaxLines == 2

PairAddresses == { << 192, 0, 2, 1 >>, << 0, 0, 0, 0 >> }

ZoneAddresses ==
    { << 127, 0, 1, 5 >>, << 127, 0, 1, 2 >>, << 127, 0, 1, 104 >>, << 127, 0, 0, 1 >>,
      << 127, 0, 0, 24 >>, << 127, 0, 0, 200 >>, << 127, 0, 0, -1 >>, << -1, -1 >> }

DigOutcomes(addresses) ==
    { Dig(k, << >>) : k \in { "timeout", "nodig", "oserror", "baddata" } }
        \cup { Dig("lines", l) : l \in SeqsUpTo(addresses, MaxLines) }

LookupWorlds ==
    { [entry |-> e, f |-> f, u |-> u] :
        e \in { "_check_quad9", "_check_cloudflare" },
        f \in DigOutcomes(PairAddresses), u \in DigOutcomes(PairAddresses) }
    \cup
    { [entry |-> e, f |-> f, u |-> f] :
        e \in { "_check_spamhaus", "_check_surbl" }, f \in DigOutcomes(ZoneAddresses) }

InitLookups ==
    /\ world \in LookupWorlds
    /\ pc = "call"
    /\ Idle

(* the call returns or raises; nothing else of the program is touched *)
Returns(entry, r) ==
    /\ pc = "call"
    /\ world.entry = entry
    /\ ret' = r
    /\ pc' = IF r.raised THEN "crashed" ELSE "done"
    /\ UNCHANGED << world, domain_stats, filtered, already_evaluated, to_evaluate, stats,
                    enrich_in, concurrency, sem, task, results, enriched, previous, batches,
                    batch_i, all_evaluations, agent_runs, stored, out, summary_h, trace,
                    caught, gathered >>

CheckQuad9 == Returns("_check_quad9", Ret(_check_quad9(world.f, world.u)))

CheckCloudflare == Returns("_check_cloudflare", Ret(_check_cloudflare(world.f, world.u)))

CheckSpamhaus == Returns("_check_spamhaus", _check_spamhaus(world.f))

CheckSurbl == Returns("_check_surbl", _check_surbl(world.f))

NextLookups ==
    \/ CheckQuad9
    \/ CheckCloudflare
    \/ CheckSpamhaus
    \/ CheckSurbl

SpecLookups == InitLookups /\ [][NextLookups]_vars

-----------------------------------------------------------------------------
(* EnrichedDomain.format_for_prompt on the records _enrich_one builds:      *)
(* world.plan is what the network did and world.d the record it left.       *)

QuietPlan ==
    [c \in Calls |-> IF c \in CurlCalls THEN Curl("timeout", NoData) ELSE Dig("lines", << >>)]

DigestPlans ==
    SingleFaultPlans \cup { QuietPlan }
        \cup { [QuietPlan EXCEPT ![c] = o] :
                    c \in { "quad9_filtered", "cloudflare_filtered", "spamhaus", "surbl" },
                    o \in { Dig("timeout", << >>), Dig("oserror", << >>) } }
        \cup { [QuietPlan EXCEPT ![c] = Dig("lines", << << 192, 0, 2, 1 >> >>)] :
                    c \in { "quad9_unfiltered", "cloudflare_unfiltered" } }

DigestWorlds ==
    { [entry |-> "format_for_prompt", plan |-> p, d |-> _enrich_one(StatsOf(x), p).value] :
        x \in { DomB, DomN },
        p \in { q \in DigestPlans : ~ _enrich_one(StatsOf(DomB), q).raised } }

InitDigest ==
    /\ world \in DigestWorlds
    /\ pc = "call"
    /\ Idle

FormatForPrompt == Returns("format_for_prompt", Ret(format_for_prompt(world.d)))

NextDigest == FormatForPrompt

SpecDigest == InitDigest /\ [][NextDigest]_vars

-----------------------------------------------------------------------------
(* The pure functions of known_domains and domain_aggregator on their own   *)
(* inputs                                                                   *)

MaxList == 3
MaxSlice == 3

Names ==
    RawDomains \cup
    { << "g", ".", "c" >>, << "x", "g", ".", "c" >>, << "G", ".", "C", "." >>,
      << "g", ".", "c", ".", "b" >>, << "l" >>, << "x", "l" >>, << "l", ".", "c" >> }

Spellings == { DomB, << "B", ".", "c" >>, << "b", ".", "c", "." >>, DomN }

PureWorlds ==
    { [entry |-> "is_known_good", domains |-> << StatsOf(d) >>, evaluated |-> {}, batch_size |-> 1] :
        d \in Names }
    \cup
    { [entry |-> "remove_already_evaluated", domains |-> l, evaluated |-> e, batch_size |-> 1] :
        l \in SeqsUpTo({ StatsOf(d) : d \in Spellings }, MaxList),
        e \in SUBSET { DomB, << "B", ".", "c" >>, DomN } }
    \cup
    { [entry |-> "batch_domains", domains |-> l, evaluated |-> {}, batch_size |-> n] :
        l \in SeqsUpTo({ StatsOf(DomB), StatsOf(DomN) }, MaxList), n \in 1..MaxSlice }

InitPure ==
    /\ world \in PureWorlds
    /\ pc = "call"
    /\ Idle

IsKnownGood == Returns("is_known_good", Ret(is_known_good(world.domains[1].domain)))

RemoveAlreadyEvaluatedCall ==
    Returns("remove_already_evaluated",
            Ret(remove_already_evaluated(world.domains, world.evaluated)))

BatchDomainsCall == Returns("batch_domains", Ret(batch_domains(world.domains, world.batch_size)))

NextPure ==
    \/ IsKnownGood
    \/ RemoveAlreadyEvaluatedCall
    \/ BatchDomainsCall

SpecPure == InitPure /\ [][NextPure]_vars

-----------------------------------------------------------------------------
(* fetch_already_evaluated_domains of both backends over the same stored    *)
(* evaluations: evaluated now, one day inside the window, exactly at the    *)
(* cutoff and one day before it.                                            *)

MaxRows == 2

StoredAt(now) == { now, now - EvaluationTtlDays + 1, now - EvaluationTtlDays, now - EvaluationTtlDays - 1 }

StoreWorlds ==
    { [entry |-> "fetch_already_evaluated_domains", backend |-> b, now |-> 100, db |-> rows] :
        b \in { "sqlite", "opensearch" },
        rows \in SeqsUpTo({ StoredRow(d, "benign", at) : d \in { DomB, DomN }, at \in StoredAt(100) },
                          MaxRows) }

InitStore ==
    /\ world \in StoreWorlds
    /\ pc = "call"
    /\ Idle

FetchAlreadyEvaluatedCall ==
    /\ pc = "call"
    /\ world.entry = "fetch_already_evaluated_domains"
    /\ \E fault \in StorageFaults :
        LET r == IF world.backend = "sqlite"
                 THEN fetch_already_evaluated_domains(world, fault)
                 ELSE opensearch_fetch_already_evaluated_domains(world, fault)
        IN  /\ ret' = r
            /\ pc' = IF r.raised THEN "crashed" ELSE "done"
            /\ caught' = IF fault = "query"
                         THEN Append(caught, "fetch_already_evaluated_failed") ELSE caught
    /\ UNCHANGED << world, domain_stats, filtered, already_evaluated, to_evaluate, stats,
                    enrich_in, concurrency, sem, task, results, enriched, previous, batches,
                    batch_i, all_evaluations, agent_runs, stored, out, summary_h, trace, gathered >>

NextStore == FetchAlreadyEvaluatedCall

SpecStore == InitStore /\ [][NextStore]_vars

-----------------------------------------------------------------------------
(* _check_rdap on its own inputs: curl fails, or answers with up to         *)
(* MaxEvents events and up to MaxEntities entities.  A registration event   *)
(* has a date that parses, one that does not, or none; an entity is the     *)
(* registrar with a full card, with a card without "fn", with a card that   *)
(* cannot be read, or is not the registrar.                                 *)

MaxEvents == 2
MaxEntities == 2

RdapEvents ==
    { [eventAction |-> "registration",
       eventDate |-> Some([text |-> "2001-01-01", parses |-> TRUE, age |-> 9000])],
      [eventAction |-> "registration",
       eventDate |-> Some([text |-> "not-a-date", parses |-> FALSE, age |-> 0])],
      [eventAction |-> "registration", eventDate |-> None],
      [eventAction |-> "expiration",
       eventDate |-> Some([text |-> "2031-01-01", parses |-> TRUE, age |-> 0])] }

RdapEntities ==
    { [roles |-> { "registrar" }, vcard_ok |-> TRUE, fn |-> Some("reg")],
      [roles |-> { "registrar" }, vcard_ok |-> TRUE, fn |-> None],
      [roles |-> { "registrar" }, vcard_ok |-> FALSE, fn |-> None],
      [roles |-> { "abuse" }, vcard_ok |-> TRUE, fn |-> Some("abuse desk")] }

RdapWorlds ==
    { [entry |-> "_check_rdap", o |-> Curl(k, NoData)] : k \in { "timeout", "garbage", "oserror" } }
    \cup { [entry |-> "_check_rdap",
            o |-> Curl("json", [NoData EXCEPT !.events = ev, !.entities = en])] :
                ev \in SeqsUpTo(RdapEvents, MaxEvents), en \in SeqsUpTo(RdapEntities, MaxEntities) }

InitRdap ==
    /\ world \in RdapWorlds
    /\ pc = "call"
    /\ Idle

CheckRdap == Returns("_check_rdap", Ret(_check_rdap(world.o)))

NextRdap == CheckRdap

SpecRdap == InitRdap /\ [][NextRdap]_vars

-----------------------------------------------------------------------------
(* SQLiteSource.store_evaluations on its own inputs, on an empty table,     *)
(* followed by fetch_previous_evaluations.  A call stores nothing, one      *)
(* evaluation whose indicators or clients run over every list of up to      *)
(* MaxItems texts of up to MaxText characters, or two evaluations.          *)

MaxText == 2
MaxItems == 2

Texts == SeqsUpTo({ "a", "," }, MaxText)

TextLists == SeqsUpTo(Texts, MaxItems)

StoreSamples ==
    { [DomainEvaluation(DomB, "suspicious", 70, "m1", 3, << >>, 100) EXCEPT
            !.indicators = l, !.escalated = x] : l \in TextLists, x \in BOOLEAN }
    \cup { DomainEvaluation(DomN, "benign", 90, "m1", 3, l, 100) : l \in TextLists }

StoreInputs ==
    { << >> } \cup { << e >> : e \in StoreSamples }
    \cup { << DomainEvaluation(DomB, "malicious", 90, "m1", 3, << << "c", "1" >> >>, 100),
              DomainEvaluation(DomN, "benign", 90, "m1", 1, << << "c", "1" >> >>, 100) >> }

InitSqlite ==
    /\ world = [ entry |-> "store_evaluations", network |-> "coarse", now |-> 100,
                 log |-> << >>, db |-> << >>, batch_size |-> 1, email_enabled |-> FALSE,
                 ollama_model |-> "m1" ]
    /\ pc = "call"
    /\ all_evaluations \in StoreInputs
    /\ domain_stats = << >> /\ filtered = << >> /\ already_evaluated = {}
    /\ to_evaluate = << >> /\ stats = NewRunStats
    /\ enrich_in = << >> /\ concurrency = DefaultConcurrency /\ sem = 0
    /\ task = << >> /\ results = << >> /\ enriched = << >>
    /\ previous = << >> /\ batches = << >> /\ batch_i = 1
    /\ agent_runs = << >> /\ ret = None
    /\ stored = << >> /\ out = << >> /\ summary_h = 1
    /\ trace = << >> /\ caught = << >> /\ gathered = << >>

(* sqlite_source.py:158-193: ret is the count returned, stored the rows committed *)
StoreEvaluationsCall ==
    /\ pc = "call"
    /\ world.entry = "store_evaluations"
    /\ \E fault \in StorageFaults :
        LET r == store_evaluations(all_evaluations, fault)
        IN  /\ caught' = IF fault = "query" /\ all_evaluations # << >>
                         THEN Append(caught, "sqlite_store_failed") ELSE caught
            /\ IF r.raised
               THEN /\ pc' = "crashed"
                    /\ ret' = r
                    /\ UNCHANGED stored
               ELSE /\ stored' = r.value[2]
                    /\ pc' = "stored"
                    /\ ret' = Ret(r.value[1])
    /\ trace' = Append(trace, "store")
    /\ UNCHANGED << world, domain_stats, filtered, already_evaluated, to_evaluate, stats,
                    enrich_in, concurrency, sem, task, results, enriched, previous, batches,
                    batch_i, all_evaluations, agent_runs, out, summary_h, gathered >>

(* sqlite_source.py:119-137 on the table the store call left; previous is   *)
(* the list returned                                                        *)
FetchPreviousCall ==
    /\ pc = "stored"
    /\ \E fault \in StorageFaults :
        LET r == fetch_previous_evaluations([world EXCEPT !.db = world.db \o stored], fault)
        IN  /\ caught' = IF fault = "query"
                         THEN Append(caught, "fetch_previous_evaluations_failed") ELSE caught
            /\ IF r.raised
               THEN /\ pc' = "crashed"
                    /\ ret' = r
                    /\ UNCHANGED previous
               ELSE /\ previous' = r.value
                    /\ pc' = "done"
                    /\ ret' = ret
    /\ trace' = Append(trace, "fetch_previous")
    /\ UNCHANGED << world, domain_stats, filtered, already_evaluated, to_evaluate, stats,
                    enrich_in, concurrency, sem, task, results, enriched, batches,
                    batch_i, all_evaluations, agent_runs, stored, out, summary_h, gathered >>

NextSqlite ==
    \/ StoreEvaluationsCall
    \/ FetchPreviousCall

SpecSqlite == InitSqlite /\ [][NextSqlite]_vars

-----------------------------------------------------------------------------
(* Every place a DomainEvaluation comes from or goes to: run() with the      *)
(* stored rows it reads back, evaluate_batch() on every reply of the         *)
(* endpoint, and the reporting stage of run().                               *)

InitRecords == Init \/ InitAgent \/ InitReport

NextRecords ==
    \/ FetchDomainStats
    \/ FilterKnownGood
    \/ FetchAlreadyEvaluated
    \/ RemoveAlreadyEvaluated
    \/ EnrichDomains
    \/ \E i \in DOMAIN task : LimitedAcquire(i)
    \/ \E i \in DOMAIN task : EnrichOneDone(i)
    \/ EnrichDomainsReturn
    \/ FetchPreviousEvaluations
    \/ MakeBatches
    \/ EvaluateBatch
    \/ EvaluateBatchCall
    \/ Tally
    \/ StoreEvaluations
    \/ EmitAlerts
    \/ EmitSummary

SpecRecords == InitRecords /\ [][NextRecords]_vars

-----------------------------------------------------------------------------
(* Every entry point that makes an external call, scheduled fairly: the      *)
(* asyncio event loop runs every ready task, each subprocess is awaited      *)
(* under asyncio.wait_for, and the model layer gives up after its retries.   *)

(* evaluate_batch on a batch of DomainStats; the endpoint fails, answers    *)
(* nothing or answers for every member                                      *)
InitModelCall ==
    /\ world = [ entry |-> "evaluate_batch", network |-> "coarse", now |-> 100, log |-> << >>,
                 db |-> << >>, batch_size |-> 1, email_enabled |-> FALSE,
                 ollama_model |-> "m1" ]
    /\ pc = "evaluate_batch"
    /\ \E b \in SeqsUpTo({ StatsOf(DomB), StatsOf(DomN) }, MaxBatch) : batches = << b >>
    /\ previous = << >>
    /\ domain_stats = << >> /\ filtered = << >> /\ already_evaluated = {}
    /\ to_evaluate = << >> /\ stats = NewRunStats
    /\ enrich_in = << >> /\ concurrency = DefaultConcurrency /\ sem = 0
    /\ task = << >> /\ results = << >> /\ enriched = << >> /\ batch_i = 1
    /\ all_evaluations = << >> /\ agent_runs = << >> /\ ret = None
    /\ stored = << >> /\ out = << >> /\ summary_h = 1 /\ trace = << >>
    /\ caught = << >> /\ gathered = << >>

InitCalls == Init \/ InitEnrich \/ InitModelCall

NextCalls ==
    \/ FetchDomainStats
    \/ FilterKnownGood
    \/ FetchAlreadyEvaluated
    \/ RemoveAlreadyEvaluated
    \/ EnrichDomains
    \/ \E i \in DOMAIN task : LimitedAcquire(i)
    \/ \E i \in DOMAIN task : EnrichOneDone(i)
    \/ EnrichDomainsReturn
    \/ FetchPreviousEvaluations
    \/ MakeBatches
    \/ EvaluateBatch
    \/ EvaluateBatchCall
    \/ EmitSummary

FairCalls == InitCalls /\ [][NextCalls]_vars /\ WF_vars(NextCalls)

-----------------------------------------------------------------------------
(* run() from its first line, and run() from line 88 on every list the      *)
(* batch loop can leave: all stages of the coordinator in one specification *)

InitStages == Init \/ InitReport

NextStages ==
    \/ FetchDomainStats
    \/ FilterKnownGood
    \/ FetchAlreadyEvaluated
    \/ RemoveAlreadyEvaluated
    \/ EnrichDomains
    \/ \E i \in DOMAIN task : LimitedAcquire(i)
    \/ \E i \in DOMAIN task : EnrichOneDone(i)
    \/ EnrichDomainsReturn
    \/ FetchPreviousEvaluations
    \/ MakeBatches
    \/ EvaluateBatch
    \/ Tally
    \/ StoreEvaluations
    \/ EmitAlerts
    \/ EmitSummary

SpecStages == InitStages /\ [][NextStages]_vars

-----------------------------------------------------------------------------
(* Properties *)

SummaryCalls(h) == { i \in DOMAIN out : out[i].kind = "summary" /\ out[i].handler = h }

AlertsIn(o) == { i \in DOMAIN o : o[i].kind = "alert" }

Running == { i \in DOMAIN task : task[i] = "running" }

(* C1: every run, whatever stage degrades, ends with an emit_summary call   *)
(* on every configured handler, that call is the last output action, and    *)
(* the RunStats passed are the counters measured so far.                    *)
C1_RunEndsWithSummary ==
    RunOver =>
        /\ \A k \in DOMAIN Handlers(world) : SummaryCalls(Handlers(world)[k]) # {}
        /\ out # << >>
        /\ out[Len(out)].kind = "summary"
        /\ out[Len(out)].stats = stats

(* C2: every domain handed to enrich_domains or to evaluate_batch is a      *)
(* domain of the raw stats, is not known-good and is not in the set         *)
(* fetch_already_evaluated_domains returned.                                *)
PassedDomains ==
    { enrich_in[i].domain : i \in DOMAIN enrich_in } \cup
    UNION { { DomainOf(batches[k][j]) : j \in DOMAIN batches[k] } :
                k \in 1..Len(agent_runs) }

C2_OnlyNewUnknownDomainsPassed ==
    \A d \in PassedDomains :
        /\ \E i \in DOMAIN domain_stats : domain_stats[i].domain = d
        /\ ~ is_known_good(d)
        /\ d \notin already_evaluated

C2_Witness ==
    /\ pc = "crashed"
    /\ agent_runs # << >>
    /\ Len(to_evaluate) >= 1
    /\ Len(filtered) > Len(to_evaluate)
    /\ Len(domain_stats) > Len(filtered)

(* C3: when the model call of a batch fails, evaluate_batch returns the     *)
(* empty list and raises nothing; nothing is invented for the batch.        *)
C3_FailedModelCallYieldsEmptyList ==
    (pc \in { "done", "crashed" } /\ agent_runs = << << FailedReply >> >>) =>
        /\ ~ ret.raised
        /\ ret.value = << >>

C3_Witness ==
    /\ pc = "done"
    /\ agent_runs = << << FailedReply >> >>
    /\ Len(batches[1]) = MaxBatch
    /\ ~ ret.raised

(* C4: classification is invoked once per batch, in order; at the end of a  *)
(* run that reached classification batches_processed is the number of       *)
(* batches and errors the number of zero-evaluation batches.                *)
C4_EveryBatchClassified ==
    (RunOver /\ agent_runs # << >>) =>
        /\ Len(agent_runs) = Len(batches)
        /\ stats.batches_processed = Len(batches)
        /\ stats.errors <= stats.batches_processed

(* C5: a sub-lookup that times out, errors or returns unparseable data      *)
(* never raises out of enrich_domains and never stops another lookup.       *)
C5_NoLookupFailureEscapes == \A i \in DOMAIN task : task[i] # "raised"

(* C6: while enrich_domains runs, at most `concurrency` domains are being   *)
(* enriched at once, whatever the number of inputs and the interleaving.    *)
C6_AtMostConcurrencyEnriching ==
    pc = "enriching" =>
        /\ Cardinality(Running) <= concurrency
        /\ sem = concurrency - Cardinality(Running)

C6_Witness ==
    /\ pc = "enriching"
    /\ concurrency = MaxConcurrency
    /\ Cardinality(Running) = concurrency
    /\ Len(task) > concurrency
    /\ \E i \in DOMAIN task : task[i] = "waiting"

(* C7: emit_alert is called only for accumulated evaluations whose level is *)
(* suspicious or malicious, once per handler for each of them; benign and   *)
(* unknown evaluations never alert.                                         *)
Occurrences(e) == Cardinality({ j \in DOMAIN all_evaluations : all_evaluations[j] = e })

AlertCallsFor(e, h) ==
    Cardinality({ i \in AlertsIn(out) : out[i].handler = h /\ out[i].evaluations = << e >> })

NothingAfterEnrichStarted ==
    /\ enrich_in = << >> /\ task = << >> /\ enriched = << >>
    /\ previous = << >> /\ batches = << >> /\ agent_runs = << >>
    /\ all_evaluations = << >> /\ stored = << >>
    /\ \A i \in DOMAIN out : out[i].kind = "summary" /\ out[i].evaluations = << >>

SummaryOfNothingWhenDone ==
    pc = "done" =>
        \A k \in DOMAIN Handlers(world) : SummaryCalls(Handlers(world)[k]) # {}

C8_EarlyStops ==
    /\ (trace # << >> /\ domain_stats = << >>) =>
        /\ trace \in { << "fetch_stats" >>, << "fetch_stats", "summary" >> }
        /\ already_evaluated = {} /\ filtered = << >>
        /\ NothingAfterEnrichStarted
        /\ SummaryOfNothingWhenDone
    /\ ("dedup" \in Range(trace) /\ to_evaluate = << >>) =>
        /\ trace \in { SubSeq(Stages, 1, 4), SubSeq(Stages, 1, 4) \o << "summary" >> }
        /\ NothingAfterEnrichStarted
        /\ SummaryOfNothingWhenDone

C8_Witness ==
    /\ pc = "done"
    /\ domain_stats # << >>
    /\ filtered # << >>
    /\ to_evaluate = << >>
    /\ Len(out) = 2

(* C9: the stages of a run happen in program order, none is re-entered:     *)
(* enrichment is over before the first classification, the store call       *)
(* precedes every alert, every alert precedes the summary, and what a later *)
(* stage writes is untouched while an earlier one runs.                     *)
Follows(a, b) ==
    \/ \E i \in 1..(Len(Stages) - 1) : a = Stages[i] /\ b = Stages[i + 1]
    \/ a = "classify" /\ b = "classify"
    \/ a \in { "fetch_stats", "dedup" } /\ b = "summary"

C9_StagesInOrder ==
    /\ trace # << >> => trace[1] = "fetch_stats"
    /\ \A i \in 1..(Len(trace) - 1) : Follows(trace[i], trace[i + 1])
    /\ "classify" \in Range(trace) => \A i \in DOMAIN task : task[i] = "done"
    /\ "classify" \notin Range(trace) => agent_runs = << >> /\ all_evaluations = << >>
    /\ "store" \notin Range(trace) => stored = << >>
    /\ AlertsIn(out) # {} => "store" \in Range(trace) /\ "alert" \in Range(trace)
    /\ \A i, j \in DOMAIN out : (i < j /\ out[i].kind = "summary") => out[j].kind = "summary"
    /\ "summary" \notin Range(trace) => \A i \in DOMAIN out : out[i].kind = "alert"

C9_Witness ==
    /\ pc = "done"
    /\ trace = Stages
    /\ stored # << >>
    /\ AlertsIn(out) # {}
    /\ out[Len(out)].kind = "summary"

(* C10: one model call at a time and exactly one structured request for     *)
(* each batch handed to evaluate_batch.                                     *)
C10_OneRequestPerBatch == \A k \in DOMAIN agent_runs : Len(agent_runs[k]) = 1

(* C11: a domain with an evaluation stored at time t is not submitted to    *)
(* enrichment or classification by a run that starts before t + TTL, and is *)
(* not excluded by dedup in a run that starts after t + TTL when nothing    *)
(* newer is stored for it.                                                  *)
EvaluatedWithinTtl ==
    { world.db[i].domain :
        i \in { j \in DOMAIN world.db : world.now < world.db[j].evaluated_at + EvaluationTtlDays } }

EvaluatedOnlyBeforeTtl ==
    { world.db[i].domain : i \in DOMAIN world.db } \ 
    { world.db[i].domain :
        i \in { j \in DOMAIN world.db : world.now <= world.db[j].evaluated_at + EvaluationTtlDays } }

EligibleAgain ==
    "dedup" \in Range(trace) =>
        \A d \in EvaluatedOnlyBeforeTtl :
            /\ d \notin already_evaluated
            /\ \A i \in DOMAIN filtered :
                filtered[i].domain = d => \E j \in DOMAIN to_evaluate : to_evaluate[j].domain = d

BatchDomains(batch) == { DomainOf(batch[j]) : j \in DOMAIN batch }

C12_EvaluationsOnlyForBatchMembers ==
    (pc = "done" /\ world.entry = "evaluate_batch") =>
        \A i \in DOMAIN ret.value : ret.value[i].domain \in BatchDomains(batches[1])

(* C13: each record the model returns becomes a DomainEvaluation with the   *)
(* query_count and unique_clients of the batch member of that name, or 0    *)
(* and the empty list when there is none, tagged with the configured model  *)
(* name and the evaluation time.                                            *)
JoinedBack(single, ev, batch) ==
    LET members == { j \in DOMAIN batch : batch[j].domain = single.domain }
    IN  /\ ev.domain = single.domain
        /\ ev.threat_level = single.threat_level
        /\ ev.confidence = single.confidence
        /\ ev.evaluated_by = world.ollama_model
        /\ ev.evaluated_at = world.now
        /\ IF members = {}
           THEN ev.query_count = 0 /\ ev.unique_clients = << >>
           ELSE \E j \in members :
                    /\ ev.query_count = batch[j].query_count
                    /\ ev.unique_clients = batch[j].unique_clients

ModelReplied ==
    /\ world.entry = "evaluate_batch"
    /\ pc \in { "done", "crashed" }
    /\ Len(agent_runs[1]) = 1
    /\ agent_runs[1][1].kind = "ok"
    /\ \A i \in DOMAIN agent_runs[1][1].evaluations :
            agent_runs[1][1].evaluations[i].confidence \in 0..100

C13_RecordsJoinedBackToBatch ==
    ModelReplied =>
        /\ ~ ret.raised
        /\ Len(ret.value) = Len(agent_runs[1][1].evaluations)
        /\ \A i \in DOMAIN ret.value :
                JoinedBack(agent_runs[1][1].evaluations[i], ret.value[i], batches[1])

C13_Witness ==
    /\ ModelReplied
    /\ Len(ret.value) = 2
    /\ ret.value[1].domain = DomB /\ ret.value[1].query_count = Len(DomB)
    /\ ret.value[1].unique_clients # << >>
    /\ ret.value[2].domain = DomH /\ ret.value[2].query_count = 0
    /\ DomB \in BatchDomains(batches[1])

(* C14: after the tally each accumulated evaluation has been counted in     *)
(* exactly the counter of its threat level, so the four counters sum to     *)
(* evaluations_produced, the length of the list; escalations counts the     *)
(* evaluations whose escalated flag is set.                                 *)
WithLevel(l) == { i \in DOMAIN all_evaluations : all_evaluations[i].threat_level = l }

C14_TallyCountsEachEvaluationOnce ==
    "tally" \in Range(trace) =>
        /\ stats.benign_count = Cardinality(WithLevel("benign"))
        /\ stats.suspicious_count = Cardinality(WithLevel("suspicious"))
        /\ stats.malicious_count = Cardinality(WithLevel("malicious"))
        /\ stats.unknown_count = Cardinality(WithLevel("unknown"))
        /\ stats.benign_count + stats.suspicious_count + stats.malicious_count
                + stats.unknown_count = stats.evaluations_produced
        /\ stats.evaluations_produced = Len(all_evaluations)
        /\ stats.escalations =
                Cardinality({ i \in DOMAIN all_evaluations : all_evaluations[i].escalated })

C14_Witness ==
    /\ pc = "done"
    /\ Len(all_evaluations) = 2
    /\ all_evaluations[1].threat_level = "suspicious" /\ all_evaluations[1].escalated
    /\ all_evaluations[2].threat_level = "unknown" /\ ~ all_evaluations[2].escalated
    /\ stats.suspicious_count = 1 /\ stats.unknown_count = 1 /\ stats.escalations = 1

(* C15: in one run the stats are fetched once, every to-evaluate domain is  *)
(* enriched once and lies in exactly one batch, store_evaluations is called *)
(* at most once with the whole accumulated list, and the evaluations that   *)
(* are stored, alerted and summarised are the accumulated ones, unchanged.  *)
Times(stage) == Cardinality({ i \in DOMAIN trace : trace[i] = stage })

C15_EachItemHandledOnce ==
    /\ Times("fetch_stats") <= 1 /\ Times("enrich") <= 1 /\ Times("store") <= 1
    /\ trace # << >> => Times("fetch_stats") = 1
    /\ \A i, j \in DOMAIN to_evaluate :
            to_evaluate[i].domain = to_evaluate[j].domain => i = j
    /\ "enrich" \in Range(trace) =>
            /\ enrich_in = to_evaluate
            /\ DOMAIN task = DOMAIN to_evaluate
    /\ "fetch_previous" \in Range(trace) =>
            /\ Len(enriched) = Len(to_evaluate)
            /\ \A i \in DOMAIN enriched : enriched[i].stats = to_evaluate[i]
    /\ (world.entry = "run" /\ (pc \in { "classify", "tally" } \/ "classify" \in Range(trace))) =>
            /\ Concat(batches) = enriched
            /\ \A k \in DOMAIN batches : batches[k] # << >>
    /\ \/ stored = << >>
       \/ /\ Len(stored) = Len(all_evaluations)
          /\ \A i \in DOMAIN stored : stored[i].domain = all_evaluations[i].domain
    /\ \A i \in AlertsIn(out) : out[i].evaluations[1] \in Range(all_evaluations)
    /\ \A i \in DOMAIN out :
            (out[i].kind = "summary" /\ "tally" \in Range(trace)) =>
                out[i].evaluations = all_evaluations

C15_Witness ==
    /\ pc = "crashed"
    /\ world.entry = "run"
    /\ Len(to_evaluate) = 2
    /\ Len(enriched) = 2
    /\ Len(batches) = 2
    /\ Len(agent_runs) = 1

(* C16: store_evaluations never raises to the coordinator; a failed write   *)
(* returns 0 and the run goes on to the alerts and the final summary.       *)
C16_StoreNeverRaises ==
    /\ pc = "crashed" => trace[Len(trace)] # "store"
    /\ (pc = "done" /\ "sqlite_store_failed" \in Range(caught)) =>
            /\ stored = << >>
            /\ \A k \in DOMAIN Handlers(world) : SummaryCalls(Handlers(world)[k]) # {}

(* C17: a failing storage read never raises to the coordinator and counts   *)
(* as no data: an empty stats list and the early stop, an empty             *)
(* already-evaluated set that excludes nothing.                             *)
C17_StorageReadsNeverRaise ==
    /\ pc = "crashed" =>
            trace[Len(trace)] \notin { "fetch_stats", "fetch_already", "fetch_previous" }
    /\ (caught # << >> /\ caught[1] \in { "pihole_db_open_failed", "pihole_db_query_failed" }) =>
            domain_stats = << >> /\ pc \in { "summary_empty", "done", "crashed" }
    /\ ("fetch_already_evaluated_failed" \in Range(caught) /\ "dedup" \in Range(trace)) =>
            already_evaluated = {} /\ to_evaluate = filtered

(* C18: every run terminates.  A lookup that times out gives the empty or    *)
(* unknown value of its own field, leaves the other fields of the domain as  *)
(* they are and raises nothing; a model call that fails after its retries    *)
(* gives the empty list; and every run reaches its end.                      *)
TimedOut(c) ==
    [NominalPlan EXCEPT ![c] = IF c \in CurlCalls THEN Curl("timeout", NoData)
                                                 ELSE Dig("timeout", << >>)]

FieldsOf(c) ==
    CASE c \in { "dns_a", "dns_mx", "dns_ns", "dns_txt" } -> { c }
      [] c \in { "quad9_filtered", "quad9_unfiltered" } -> { "quad9_blocked" }
      [] c \in { "cloudflare_filtered", "cloudflare_unfiltered" } -> { "cloudflare_blocked" }
      [] c = "spamhaus" -> { "spamhaus_result" }
      [] c = "surbl" -> { "surbl_result" }
      [] c = "rdap" -> { "domain_age_days", "registrar", "creation_date" }
      [] c = "otx" -> { "otx_pulse_count", "otx_malware_count", "otx_tags" }

(* the value a field has when its lookup gave nothing: None or the empty list; *)
(* the tags of the pulse lookup are a set                                      *)
Unknown(f) == IF f = "otx_tags" THEN {} ELSE << >>

TimeoutStaysInItsCall ==
    \A i \in { j \in DOMAIN task : pc = "enriching" /\ task[j] = "running" } : \A c \in Calls :
        LET r == _enrich_one(enrich_in[i], TimedOut(c))
            nominal == _enrich_one(enrich_in[i], NominalPlan).value
        IN  /\ ~ r.raised
            /\ \A f \in DOMAIN nominal \ FieldsOf(c) : r.value[f] = nominal[f]
            /\ c \in { "dns_a", "dns_mx", "dns_ns", "dns_txt", "spamhaus", "surbl", "rdap", "otx" }
                    => \A f \in FieldsOf(c) : r.value[f] = Unknown(f)

FailedModelCallIsEmpty ==
    (world.entry = "evaluate_batch" /\ pc \in { "done", "crashed" } /\ agent_runs = << << FailedReply >> >>)
        => (pc = "done" /\ ret = Ret(<< >>))

Restricted(s, keep) ==
    [k \in 1..Cardinality(keep) |->
        s[CHOOSE i \in keep : Cardinality({ j \in keep : j <= i }) = k]]

Unknowns == { i \in DOMAIN domain_stats : ~ is_known_good(domain_stats[i].domain) }

News == { i \in DOMAIN filtered : filtered[i].domain \notin already_evaluated }

CountersMatchTheFilters ==
    /\ "filter" \in Range(trace) =>
            /\ filtered = Restricted(domain_stats, Unknowns)
            /\ stats.domains_after_filtering = Cardinality(Unknowns)
    /\ "dedup" \in Range(trace) =>
            /\ to_evaluate = Restricted(filtered, News)
            /\ stats.domains_to_evaluate = Cardinality(News)
    /\ stats.domains_to_evaluate <= stats.domains_after_filtering
    /\ stats.domains_after_filtering <= stats.total_domains_queried

ScenarioRun ==
    /\ world.entry = "run"
    /\ world.log = << StatsOf(DomA), StatsOf(DomB), StatsOf(DomN) >>
    /\ world.db = << StoredRow(DomB, "malicious", world.now) >>
    /\ "dedup" \in Range(trace)

ScenarioOutcome ==
    /\ stats.domains_after_filtering = 2
    /\ stats.domains_to_evaluate = 1
    /\ PassedDomains \subseteq { DomN }
    /\ pc \notin { "summary_empty", "enrich" } => PassedDomains = { DomN }

Returned ==
    IF world.entry = "evaluate_batch" /\ pc = "done" THEN Range(ret.value) ELSE {}

EvaluationsOfTheRun ==
    Range(all_evaluations) \cup Range(previous) \cup Range(stored) \cup Returned
        \cup UNION { Range(out[k].evaluations) : k \in DOMAIN out }

ConfidenceWithinBounds == \A e \in EvaluationsOfTheRun : e.confidence \in 0..100

ConfidenceAsAnswered ==
    \A e \in Returned :
        \E i \in DOMAIN agent_runs[1][1].evaluations :
            /\ agent_runs[1][1].evaluations[i].domain = e.domain
            /\ agent_runs[1][1].evaluations[i].confidence = e.confidence

ConfidenceKept ==
    /\ SubSeq(all_evaluations', 1, Len(all_evaluations)) = all_evaluations
    /\ previous # << >> => previous' = previous
    /\ \/ stored' = stored
       \/ /\ Len(stored') = Len(all_evaluations)
          /\ \A i \in DOMAIN stored' : stored'[i].confidence = all_evaluations[i].confidence
    /\ SubSeq(out', 1, Len(out)) = out
    /\ \A k \in DOMAIN out' : Range(out'[k].evaluations) \subseteq Range(all_evaluations)

C20_ConfidenceWithinBoundsAndKept ==
    /\ [](ConfidenceWithinBounds /\ ConfidenceAsAnswered)
    /\ [][ConfidenceKept]_vars

C20_Witness ==
    /\ world.entry = "evaluate_batch"
    /\ pc = "done"
    /\ Len(ret.value) = 2
    /\ ret.value[1].confidence = 0
    /\ ret.value[2].confidence = 100

(* C21: when the lookup against the filtered or the unfiltered resolver of  *)
(* a pair errors or times out, the blocked verdict is None: never TRUE,     *)
(* never FALSE.                                                             *)
PairChecked == pc = "done" /\ world.entry \in { "_check_quad9", "_check_cloudflare" }

Errored(o) == o.kind # "lines"

C21_ResolverErrorGivesUnknown ==
    (PairChecked /\ (Errored(world.f) \/ Errored(world.u))) => ret.value = None

(* C22: when both resolvers of a pair answer, blocked is TRUE if the        *)
(* filtered answer is empty and the unfiltered one is not, and, for         *)
(* Cloudflare only, if the filtered answer holds 0.0.0.0 and the unfiltered *)
(* answer is not empty; in every other case, both answers empty included,   *)
(* it is FALSE.                                                             *)
BothAnswered == PairChecked /\ world.f.kind = "lines" /\ world.u.kind = "lines"

NullAddress == << 0, 0, 0, 0 >>

JudgedBlocked ==
    \/ world.f.lines = << >> /\ world.u.lines # << >>
    \/ /\ world.entry = "_check_cloudflare"
       /\ NullAddress \in Range(world.f.lines)
       /\ world.u.lines # << >>

C22_BlockedVerdictOfAnsweringResolvers ==
    BothAnswered => ret.value = Some(JudgedBlocked)

C22_Witness ==
    /\ BothAnswered
    /\ world.entry = "_check_cloudflare"
    /\ world.f.lines = << NullAddress >>
    /\ world.u.lines # << >>
    /\ ret.value = Some(TRUE)

(* C23: the digest keeps unknown apart from checked-clean.  A resolver-pair *)
(* verdict of None never gives the text that the verdict FALSE gives, and   *)
(* the digest says "not listed in any blocklist" only when every blocklist  *)
(* lookup succeeded and found the domain clean.                             *)
Digested == pc = "done" /\ world.entry = "format_for_prompt"

BlocklistCalls ==
    { "quad9_filtered", "quad9_unfiltered", "cloudflare_filtered", "cloudflare_unfiltered",
      "spamhaus", "surbl" }

CheckedClean ==
    /\ \A c \in BlocklistCalls : world.plan[c].kind = "lines"
    /\ world.d.quad9_blocked = Some(FALSE)
    /\ world.d.cloudflare_blocked = Some(FALSE)
    /\ world.d.spamhaus_result = None
    /\ world.d.surbl_result = None

C23_DigestKeepsUnknownApartFromClean ==
    Digested =>
        /\ \A f \in { "quad9_blocked", "cloudflare_blocked" } :
                world.d[f] = None =>
                    ret.value # format_for_prompt([world.d EXCEPT ![f] = Some(FALSE)])
        /\ ret.value.intel = NoSignals => CheckedClean

(* C24: for every batch handed to evaluate_batch one prompt is sent, and    *)
(* its domain list holds one entry per batch member, in batch order, each   *)
(* the digest format_for_prompt gives of that member.                       *)
C24_PromptHoldsTheDigestOfEveryMember ==
    \A k \in DOMAIN agent_runs :
        LET prompt == _format_batch_prompt(batches[k], _format_learning_context(previous))
        IN  /\ ~ prompt.raised
            /\ agent_runs[k] # << >>
            /\ Len(prompt.value.domain_list) = Len(batches[k])
            /\ \A i \in DOMAIN batches[k] :
                    prompt.value.domain_list[i] = format_for_prompt(batches[k][i])

(* C25: is_known_good(D) is TRUE iff D, lower-cased and without trailing    *)
(* dots, is an exact entry of the allowlist or ends with one of its         *)
(* suffixes at a label boundary: the suffix is the whole name or follows a  *)
(* dot.                                                                     *)
Normalised(d) == rstrip_dot(lower(d))

EndsAtLabel(d, suffix) ==
    /\ Len(suffix) <= Len(d)
    /\ SubSeq(d, Len(d) - Len(suffix) + 1, Len(d)) = suffix
    /\ (Len(suffix) < Len(d) => d[Len(d) - Len(suffix)] = ".")

C25_KnownGoodIffExactOrLabelSuffix ==
    (pc = "done" /\ world.entry = "is_known_good") =>
        LET d == Normalised(world.domains[1].domain)
        IN  ret.value = (d \in KnownExact \/ \E suffix \in KnownSuffixes : EndsAtLabel(d, suffix))

(* C26: remove_already_evaluated(L, S) is, in the order of L, exactly the   *)
(* members of L whose domain string, as spelled, is not an element of S,    *)
(* and applying it again with the same S changes nothing.                   *)
Removed == pc = "done" /\ world.entry = "remove_already_evaluated"

NotIn(l, e) == { i \in DOMAIN l : l[i].domain \notin e }

C26_RemoveKeepsOrderAndIsIdempotent ==
    Removed =>
        /\ ret.value = Restricted(world.domains, NotIn(world.domains, world.evaluated))
        /\ remove_already_evaluated(ret.value, world.evaluated) = ret.value

C26_Witness ==
    /\ Removed
    /\ world.evaluated = { DomB }
    /\ world.domains = << StatsOf(<< "B", ".", "c" >>), StatsOf(DomB), StatsOf(DomN) >>
    /\ ret.value = << StatsOf(<< "B", ".", "c" >>), StatsOf(DomN) >>

(* C27: batch_domains(L, n) with n >= 1 gives ceil(len(L)/n) groups, each   *)
(* non-empty and of at most n members, whose concatenation is L; no group   *)
(* for the empty list.                                                      *)
Batched == pc = "done" /\ world.entry = "batch_domains"

C27_BatchesPartitionTheList ==
    Batched =>
        /\ Len(ret.value) * world.batch_size >= Len(world.domains)
        /\ (Len(ret.value) - 1) * world.batch_size < Len(world.domains)
        /\ \A k \in DOMAIN ret.value :
                Len(ret.value[k]) >= 1 /\ Len(ret.value[k]) <= world.batch_size
        /\ Concat(ret.value) = world.domains
        /\ world.domains = << >> => ret.value = << >>

C27_Witness ==
    /\ Batched
    /\ Len(world.domains) = 3
    /\ world.batch_size = 2
    /\ Len(ret.value) = 2
    /\ Len(ret.value[2]) = 1

(* C28: _check_spamhaus gives None for an empty answer and otherwise the    *)
(* category the code table assigns to the first answer address that is in   *)
(* the table: 127.0.1.2 spam, .4 phishing, .5 malware, .6 botnet_cc and     *)
(* .102, .104, .105, .106 the same with abused_ before it.                  *)
SpamhausAnswered ==
    pc = "done" /\ world.entry = "_check_spamhaus" /\ world.f.kind = "lines"

Category(octet) ==
    CASE octet % 100 = 2 -> "spam"
      [] octet % 100 = 4 -> "phishing"
      [] octet % 100 = 5 -> "malware"
      [] octet % 100 = 6 -> "botnet_cc"

Listed(ip) ==
    /\ Len(ip) = 4
    /\ << ip[1], ip[2], ip[3] >> = << 127, 0, 1 >>
    /\ ip[4] \in { 2, 4, 5, 6, 102, 104, 105, 106 }

TableEntry(ip) ==
    IF ip[4] >= 100 THEN "abused_" \o Category(ip[4]) ELSE Category(ip[4])

C28_SpamhausCategoryOfFirstListedAddress ==
    SpamhausAnswered =>
        LET answer == world.f.lines
            listed == { i \in DOMAIN answer : Listed(answer[i]) }
        IN  /\ answer = << >> => ret.value = None
            /\ listed # {} =>
                    \E i \in listed :
                        /\ \A j \in listed : i <= j
                        /\ ret.value = Some(TableEntry(answer[i]))
            /\ answer = << << 127, 0, 1, 5 >> >> => ret.value = Some("malware")

C28_Witness ==
    /\ SpamhausAnswered
    /\ world.f.lines = << << 127, 0, 0, 1 >>, << 127, 0, 1, 104 >> >>
    /\ ret.value = Some("abused_phishing")

(* C29: _check_surbl gives None for an empty answer and otherwise the       *)
(* categories of the set bits of the answer's last octet, comma-joined in   *)
(* the order phishing (8), malware (16), abuse (64), cracked (128), each at *)
(* most once; None when no such bit is set.                                 *)
SurblAnswered ==
    pc = "done" /\ world.entry = "_check_surbl" /\ world.f.kind = "lines"

SurblOrder == << "phishing", "malware", "abuse", "cracked" >>

InSurblOrder(cs) ==
    \E pos \in [DOMAIN cs -> DOMAIN SurblOrder] :
        /\ \A i \in DOMAIN cs : SurblOrder[pos[i]] = cs[i]
        /\ \A i, j \in DOMAIN cs : i < j => pos[i] < pos[j]

C29_SurblCategoriesOfTheBitmask ==
    SurblAnswered =>
        /\ world.f.lines = << >> => ret.value = None
        /\ ret.value # None => ret.value[1] # << >> /\ InSurblOrder(ret.value[1])
        /\ world.f.lines = << << 127, 0, 0, 24 >> >> =>
                ret.value = Some(<< "phishing", "malware" >>)
        /\ world.f.lines = << << 127, 0, 0, 1 >> >> => ret.value = None

(* C30: fetch_already_evaluated_domains returns exactly the distinct        *)
(* domains that have a stored evaluation with                               *)
(* evaluated_at >= now - evaluation_ttl_days, the cutoff included, for the  *)
(* SQLite and for the OpenSearch backend alike.                             *)
Fetched == pc = "done" /\ world.entry = "fetch_already_evaluated_domains"

AtOrAfterCutoff ==
    { world.db[i].domain :
        i \in { j \in DOMAIN world.db :
                    world.db[j].evaluated_at + EvaluationTtlDays >= world.now } }

C30_ExactlyTheDomainsWithinTheWindow ==
    Fetched => ret.value = AtOrAfterCutoff

(* C31: enrich_domains returns one EnrichedDomain per input DomainStats, in *)
(* input order, each wrapping its unchanged input stats, and each field of  *)
(* a record holds the result of its own sub-lookup for that domain,         *)
(* whatever the order in which sub-lookups and domains complete.            *)
EnrichmentReturned ==
    pc = "done" /\ world.entry = "enrich_domains" /\ "plans" \in DOMAIN world

C31_OneRecordPerInputWithItsOwnLookups ==
    EnrichmentReturned =>
        /\ Len(ret.value) = Len(to_evaluate)
        /\ \A i \in DOMAIN to_evaluate :
            /\ ret.value[i].stats = to_evaluate[i]
            /\ ret.value[i] = _enrich_one(to_evaluate[i], world.plans[i]).value

C31_Witness ==
    /\ EnrichmentReturned
    /\ Len(ret.value) = 2
    /\ ret.value[1].spamhaus_result # ret.value[2].spamhaus_result
    /\ ret.value[1].dns_a # ret.value[1].dns_mx

(* C32: store_evaluations returns the number of evaluations it persisted,   *)
(* never more than the input length and 0 for an empty input; the SQLite    *)
(* write is all-or-nothing: every evaluation of the call is committed and   *)
(* the input length is returned, or nothing of it is persisted and 0 is     *)
(* returned.                                                                *)
StoreCallOver == world.entry = "store_evaluations" /\ Len(trace) = 1

C32_StoreReturnsWhatItPersistedAllOrNothing ==
    StoreCallOver =>
        IF ret.raised THEN FALSE
        ELSE /\ ret.value = Len(stored)
             /\ ret.value <= Len(all_evaluations)
             /\ all_evaluations = << >> => ret.value = 0
             /\ ret.value \in { 0, Len(all_evaluations) }

(* C36: with the SQLite backend an evaluation persisted by                  *)
(* store_evaluations and read back by fetch_previous_evaluations equals the *)
(* original in every field, for every list of indicators and of clients,    *)
(* empty lists and texts that hold a comma included.                        *)
StoredAndReadBack ==
    /\ world.entry = "store_evaluations"
    /\ pc = "done"
    /\ stored # << >>
    /\ "fetch_previous_evaluations_failed" \notin Range(caught)

C36_StoredEvaluationReadsBackEqual ==
    StoredAndReadBack =>
        /\ Len(previous) = Len(all_evaluations)
        /\ \A i \in DOMAIN all_evaluations : all_evaluations[i] \in Range(previous)

(* C33: the RDAP lookup degrades each field on its own: with the            *)
(* registration date missing or unparseable and the registrar name present  *)
(* the registrar is returned, age and creation date unknown; with the       *)
(* registrar entity or its contact card missing or malformed and a          *)
(* registration date that parses, creation date and age are returned; the   *)
(* age is set only when the creation date parses.                           *)
RdapAnswered == pc = "done" /\ world.entry = "_check_rdap" /\ world.o.kind = "json"

RegistrationDates ==
    { world.o.data.events[i].eventDate :
        i \in { j \in DOMAIN world.o.data.events :
                    world.o.data.events[j].eventAction = "registration" } }

DateParses == RegistrationDates # {} /\ \A d \in RegistrationDates : d # None /\ d[1].parses

DateMissingOrUnparseable == \A d \in RegistrationDates : d = None \/ ~ d[1].parses

Registrars ==
    { world.o.data.entities[i] :
        i \in { j \in DOMAIN world.o.data.entities :
                    "registrar" \in world.o.data.entities[j].roles } }

RegistrarNamePresent == \E e \in Registrars : e.vcard_ok /\ e.fn # None

RegistrarMissingOrMalformed == \A e \in Registrars : ~ e.vcard_ok \/ e.fn = None

UnknownDate(created) == created = None \/ created = Some("")

C33_RdapFieldsDegradeIndependently ==
    RdapAnswered =>
        /\ (DateMissingOrUnparseable /\ RegistrarNamePresent) =>
                /\ ret.value[2] # None
                /\ ret.value[1] = None
                /\ UnknownDate(ret.value[3])
        /\ (RegistrarMissingOrMalformed /\ DateParses) =>
                /\ ret.value[1] # None
                /\ ~ UnknownDate(ret.value[3])
        /\ ret.value[1] # None => \E d \in RegistrationDates : d # None /\ d[1].parses

(* C34: each domain submitted to the classifier yields at most one          *)
(* DomainEvaluation: the evaluations evaluate_batch returns, which run()    *)
(* accumulates as they are (main.py:81-82) and counts as                    *)
(* evaluations_produced, hold no domain twice and are no more than the      *)
(* domains submitted.                                                       *)
BatchClassified == pc = "done" /\ world.entry = "evaluate_batch"

C34_AtMostOneEvaluationPerSubmittedDomain ==
    BatchClassified =>
        /\ \A i, j \in DOMAIN ret.value : ret.value[i].domain = ret.value[j].domain => i = j
        /\ Len(ret.value) <= Len(batches[1])

(* C35: fetch_previous_evaluations is called exactly once in a run that     *)
(* reaches classification, after enrichment and before the first batch;     *)
(* the list it returned is the learning context of every evaluate_batch     *)
(* call of the run: no later step changes it, and it holds evaluations read *)
(* from the store as the run found it, none produced by the run.            *)
Position(stage) ==
    CHOOSE i \in DOMAIN trace : trace[i] = stage /\ \A j \in 1..(i - 1) : trace[j] # stage

FetchedOnceBeforeTheFirstBatch ==
    /\ Times("fetch_previous") <= 1
    /\ "classify" \in Range(trace) =>
            /\ Times("fetch_previous") = 1
            /\ Position("enrich") < Position("fetch_previous")
            /\ Position("fetch_previous") < Position("classify")

ReadFromTheStoreAsFound ==
    /\ Range(previous) \subseteq { _row_to_evaluation(world.db[i]) : i \in DOMAIN world.db }
    /\ "fetch_previous" \notin Range(trace) => previous = << >>

LearningContextKept == "fetch_previous" \in Range(trace) => previous' = previous

C35_LearningContextFetchedOnceAndKept ==
    /\ [](FetchedOnceBeforeTheFirstBatch /\ ReadFromTheStoreAsFound)
    /\ [][LearningContextKept]_vars

C35_Witness ==
    /\ world.entry = "run"
    /\ "classify" \in Range(trace)
    /\ previous # << >>
    /\ Len(batches) = 2

====
